---- MODULE Spec2Model ----
(***************************************************************************)
(* Model of mcp-resume: the Document Store Adapter                         *)
(* (ResumeService.getResume and its single cache slot), the MCP request    *)
(* handlers and catalogues that sit on top of it, the Provider Registry    *)
(* (LLMProviders), the gateway that selects a context and asks a provider, *)
(* and the gateway's WebSocket connection.                                 *)
(*                                                                         *)
(* Strings the code inspects character by character (company names,       *)
(* queries, digits of CACHE_TIMEOUT) are sequences of one-character        *)
(* strings; strings the code only compares or concatenates (tool names,    *)
(* message prefixes) are TLA+ strings.  An error message is the sequence   *)
(* of the pieces the code concatenates.                                    *)
(***************************************************************************)
EXTENDS Integers, Sequences, FiniteSets, TLC

VARIABLES cache, cacheTimestamp, clock, ticks, envCacheTimeout, requests,
          issued, eventSeq, llmConfig, llmCalls, chats, received, sent,
          providers, calls, mcpClient, children, gateway

vars ==
  <<cache, cacheTimestamp, clock, ticks, envCacheTimeout, requests, issued,
    eventSeq, llmConfig, llmCalls, chats, received, sent, providers, calls,
    mcpClient, children, gateway>>

\* the objects the gateway process creates when its module is loaded, and
\* its own life: the Map of the Provider Registry (this.providers), the
\* direct calls of the registry's and the MCP client's methods with what
\* they returned, the fields of the MCP client with the state of its SDK
\* Client, the server processes spawned so far, and whether the process
\* has called server.listen() or has exited
clientVars == <<providers, calls, mcpClient, children, gateway>>

\* the traffic of the gateway's WebSocket connection and of its
\* GET /api/providers route: the messages received, with the state of their
\* handlers, and the messages sent, in the order of sending
connectionVars == <<received, sent>>

\* the state of the gateway process: the provider configuration read at
\* start, the calls of LLMProviders.chat and the chat requests
gatewayVars == <<llmConfig, llmCalls, chats>>

(***************************************************************************)
(* Bounds of the model.                                                    *)
(***************************************************************************)
\* getResume() calls issued in one run of Spec
MaxRequests == 2
\* advances of Date.now() in one run
MaxTicks == 2

(***************************************************************************)
(* JavaScript values.                                                      *)
(***************************************************************************)
Null == [isNull |-> TRUE]
Undefined == [t |-> "undefined"]
Str(s) == [t |-> "string", s |-> s]
Num(n) == [t |-> "number", n |-> n]

\* ToBoolean of an argument value: undefined, '' and 0 are falsy
Truthy(v) ==
  CASE v.t = "undefined" -> FALSE
    [] v.t = "string" -> v.s # <<>>
    [] v.t = "number" -> v.n # 0

NoError == [name |-> "", message |-> <<>>]

\* new Error(message)
NewError(message) == [name |-> "Error", message |-> message]

\* error instanceof Error ? error.message : 'Unknown error'
MessageOf(error) == IF error.name = "" THEN <<"Unknown error">> ELSE error.message

(***************************************************************************)
(* Resume documents (ResumeData): every field is optional, so a document   *)
(* is a record that may lack any of them.                                  *)
(***************************************************************************)
Has(r, f) == f \in DOMAIN r

DocA ==
  [basics |-> [name |-> <<"A", "n", "n">>,
               summary |-> <<"P", "y", "t", "h", "o", "n", " ", "d", "e", "v">>],
   work |-> << [company |-> <<"A", "c", "m", "e">>,
                position |-> <<"E", "n", "g", "i", "n", "e", "e", "r">>,
                startDate |-> <<"2", "0", "2", "0">>,
                endDate |-> <<>>],
               [position |-> <<"I", "n", "t", "e", "r", "n">>] >>,
   skills |-> << [name |-> <<"B", "a", "c", "k", "e", "n", "d">>,
                  keywords |-> << <<"P", "y", "t", "h", "o", "n">> >>] >>]

Documents ==
  LET DocB == [basics |-> [name |-> <<"B", "o", "b">>]] IN {DocA, DocB}

(***************************************************************************)
(* Configuration: config.cacheTimeout is parsed from CACHE_TIMEOUT.        *)
(***************************************************************************)
\* parseInt of a string of decimal digits
RECURSIVE parseInt(_)
parseInt(s) ==
  LET DigitValue ==
        [c \in {"0", "1", "2", "3", "4", "5", "6", "7", "8", "9"} |->
           CASE c = "0" -> 0 [] c = "1" -> 1 [] c = "2" -> 2 [] c = "3" -> 3
             [] c = "4" -> 4 [] c = "5" -> 5 [] c = "6" -> 6 [] c = "7" -> 7
             [] c = "8" -> 8 [] c = "9" -> 9]
  IN
  IF s = <<>> THEN 0
  ELSE 10 * parseInt(SubSeq(s, 1, Len(s) - 1)) + DigitValue[s[Len(s)]]

\* config.cacheTimeout: parseInt(process.env.CACHE_TIMEOUT || '300000')
configCacheTimeout ==
  parseInt(IF envCacheTimeout # <<>> THEN envCacheTimeout
           ELSE <<"3", "0", "0", "0", "0", "0">>)

(***************************************************************************)
(* ResumeService                                                           *)
(***************************************************************************)
\* private readonly cacheTimeout: number = 300000
cacheTimeout == 300000

\* a plausible slip: the comparison turned around
CacheHitInverted(c, ts, now) == c # Null /\ (now - ts) > cacheTimeout

\* a plausible slip: <= in place of <
CacheHitInclusive(c, ts, now) == c # Null /\ (now - ts) <= cacheTimeout

\* this.cache && (now - this.cacheTimestamp) < this.cacheTimeout
CacheHit(c, ts, now) == c # Null /\ (now - ts) < cacheTimeout

\* What the document store can answer to one remote read: no answer, a
\* non-success status, a bundle without resume.json, a resume.json that is
\* no JSON, or a resume.json holding a ResumeData object.
Responses ==
  { [kind |-> "unreachable"],
    [kind |-> "status", status |-> "404 Not Found"],
    [kind |-> "nofile"],
    [kind |-> "malformed"] }
  \cup { [kind |-> "document", doc |-> d] : d \in Documents }

\* JSON.parse(resumeFile.content)
JSONParse(resp) ==
  IF resp.kind = "malformed"
  THEN [ok |-> FALSE, doc |-> Null,
        err |-> [name |-> "SyntaxError", message |-> <<"Unexpected token">>]]
  ELSE [ok |-> TRUE, doc |-> resp.doc, err |-> NoError]

\* The body of the try block: fetch, status check, file lookup, parse.
FetchAndParse(resp) ==
  CASE resp.kind = "unreachable" ->
         [ok |-> FALSE, doc |-> Null,
          err |-> [name |-> "FetchError", message |-> <<"request failed">>]]
    [] resp.kind = "status" ->
         [ok |-> FALSE, doc |-> Null,
          err |-> NewError(<<"GitHub API error: ", resp.status>>)]
    [] resp.kind = "nofile" ->
         [ok |-> FALSE, doc |-> Null,
          err |-> NewError(<<"resume.json file not found in gist">>)]
    [] OTHER -> JSONParse(resp)

\* a plausible slip: the cause is re-thrown as it is
GetResumeCatchRethrow(error) == error

\* catch (error) { throw new Error(`Failed to fetch resume from gist: ...`) }
GetResumeCatch(error) ==
  NewError(<<"Failed to fetch resume from gist: ">> \o MessageOf(error))

\* a plausible slip: the timestamp of the entry is not renewed
GetResumeMissKeepTimestamp(c, ts, now, resp) ==
  LET r == FetchAndParse(resp) IN
  IF r.ok
  THEN [cache |-> r.doc, cacheTimestamp |-> ts,
        status |-> "returned", value |-> r.doc, err |-> NoError]
  ELSE [cache |-> c, cacheTimestamp |-> ts,
        status |-> "threw", value |-> Null, err |-> GetResumeCatch(r.err)]

\* a plausible slip: the entry is dropped when the refetch fails
GetResumeMissEvict(c, ts, now, resp) ==
  LET r == FetchAndParse(resp) IN
  IF r.ok
  THEN [cache |-> r.doc, cacheTimestamp |-> now,
        status |-> "returned", value |-> r.doc, err |-> NoError]
  ELSE [cache |-> Null, cacheTimestamp |-> 0,
        status |-> "threw", value |-> Null, err |-> GetResumeCatch(r.err)]

\* a plausible slip: the stale entry is served when the refetch fails
GetResumeMissServeStale(c, ts, now, resp) ==
  LET r == FetchAndParse(resp) IN
  IF r.ok
  THEN [cache |-> r.doc, cacheTimestamp |-> now,
        status |-> "returned", value |-> r.doc, err |-> NoError]
  ELSE IF c # Null
  THEN [cache |-> c, cacheTimestamp |-> ts,
        status |-> "returned", value |-> c, err |-> NoError]
  ELSE [cache |-> c, cacheTimestamp |-> ts,
        status |-> "threw", value |-> Null, err |-> GetResumeCatch(r.err)]

\* a plausible slip: a call that finds the slot stamped later than its own
\* entry leaves the slot alone
GetResumeMissKeepsNewer(c, ts, now, resp) ==
  LET r == FetchAndParse(resp) IN
  IF r.ok
  THEN [cache |-> IF c # Null /\ ts > now THEN c ELSE r.doc,
        cacheTimestamp |-> IF c # Null /\ ts > now THEN ts ELSE now,
        status |-> "returned", value |-> r.doc, err |-> NoError]
  ELSE [cache |-> c, cacheTimestamp |-> ts,
        status |-> "threw", value |-> Null, err |-> GetResumeCatch(r.err)]

\* a plausible slip: the slot's timestamp is only ever moved forward
GetResumeMissLatestTimestamp(c, ts, now, resp) ==
  LET r == FetchAndParse(resp) IN
  IF r.ok
  THEN [cache |-> r.doc, cacheTimestamp |-> IF ts > now THEN ts ELSE now,
        status |-> "returned", value |-> r.doc, err |-> NoError]
  ELSE [cache |-> c, cacheTimestamp |-> ts,
        status |-> "threw", value |-> Null, err |-> GetResumeCatch(r.err)]

\* getResume() after the cache check missed: the try/catch around the remote
\* read, given the slot (c, ts) at the moment the read settles and the value
\* `now` sampled when the call entered.
GetResumeMiss(c, ts, now, resp) ==
  LET r == FetchAndParse(resp) IN
  IF r.ok
  THEN [cache |-> r.doc, cacheTimestamp |-> now,
        status |-> "returned", value |-> r.doc, err |-> NoError]
  ELSE [cache |-> c, cacheTimestamp |-> ts,
        status |-> "threw", value |-> Null, err |-> GetResumeCatch(r.err)]

(***************************************************************************)
(* Strings                                                                 *)
(***************************************************************************)
LowerChar(c) ==
  LET UpperCase ==
        <<"A", "B", "C", "D", "E", "F", "G", "H", "I", "J", "K", "L", "M",
          "N", "O", "P", "Q", "R", "S", "T", "U", "V", "W", "X", "Y", "Z">>
      LowerCase ==
        <<"a", "b", "c", "d", "e", "f", "g", "h", "i", "j", "k", "l", "m",
          "n", "o", "p", "q", "r", "s", "t", "u", "v", "w", "x", "y", "z">>
  IN
  IF \E k \in 1..Len(UpperCase) : UpperCase[k] = c
  THEN LowerCase[CHOOSE k \in 1..Len(UpperCase) : UpperCase[k] = c]
  ELSE c

\* String.prototype.toLowerCase
toLowerCase(s) == [k \in 1..Len(s) |-> LowerChar(s[k])]

\* String.prototype.includes
includes(s, t) ==
  \E k \in 0..(Len(s) - Len(t)) : SubSeq(s, k + 1, k + Len(t)) = t

\* value || fallback for an optional string field
OrElse(r, f, fallback) == IF Has(r, f) /\ r[f] # <<>> THEN r[f] ELSE fallback

\* if (value) for an optional string field
Present(r, f) == Has(r, f) /\ r[f] # <<>>

RECURSIVE Concat(_)
Concat(ss) == IF ss = <<>> THEN <<>> ELSE Head(ss) \o Concat(Tail(ss))

\* Array.prototype.join
RECURSIVE join(_, _)
join(ss, sep) ==
  IF ss = <<>> THEN <<>>
  ELSE IF Len(ss) = 1 THEN ss[1]
  ELSE ss[1] \o sep \o join(Tail(ss), sep)

\* a list field of the document, or [] when the document has none
ListOf(doc, f) == IF Has(doc, f) THEN doc[f] ELSE <<>>

(***************************************************************************)
(* ResumeService.formatAsText: the pushed sections, joined by newlines.    *)
(***************************************************************************)
BasicsSections(doc) ==
  IF ~Has(doc, "basics") THEN <<>>
  ELSE LET basics == doc.basics IN
       << OrElse(basics, "name", <<"Name not available">>) >>
       \o (IF Present(basics, "label") THEN <<basics.label>> ELSE <<>>)
       \o (IF Present(basics, "email")
           THEN << <<"Email: ">> \o basics.email >> ELSE <<>>)
       \o (IF Present(basics, "phone")
           THEN << <<"Phone: ">> \o basics.phone >> ELSE <<>>)
       \o (IF Present(basics, "url")
           THEN << <<"Website: ">> \o basics.url >> ELSE <<>>)
       \o (IF Present(basics, "summary")
           THEN << <<"\n", "SUMMARY:", "\n">> \o basics.summary >> ELSE <<>>)

JobSections(job) ==
  << <<"\n">> \o OrElse(job, "company", <<"Company">>) \o <<" - ">>
       \o OrElse(job, "position", <<"Position">>) >>
  \o (IF Present(job, "startDate") \/ Present(job, "endDate")
      THEN << OrElse(job, "startDate", <<>>) \o <<" - ">>
                \o OrElse(job, "endDate", <<"Present">>) >>
      ELSE <<>>)
  \o (IF Present(job, "summary") THEN <<job.summary>> ELSE <<>>)
  \o (IF Has(job, "highlights")
      THEN [k \in 1..Len(job.highlights) |-> <<"(bullet) ">> \o job.highlights[k]]
      ELSE <<>>)

EducationSections(edu) ==
  << <<"\n">> \o OrElse(edu, "institution", <<"Institution">>) >>
  \o (IF Present(edu, "area")
      THEN << OrElse(edu, "studyType", <<"Degree">>) \o <<" in ">> \o edu.area >>
      ELSE <<>>)
  \o (IF Present(edu, "startDate") \/ Present(edu, "endDate")
      THEN << OrElse(edu, "startDate", <<>>) \o <<" - ">>
                \o OrElse(edu, "endDate", <<"Present">>) >>
      ELSE <<>>)

SkillSection(skill) ==
  OrElse(skill, "name", <<"Skill">>)
  \o (IF Present(skill, "level")
      THEN <<" (">> \o skill.level \o <<")">> ELSE <<>>)
  \o (IF Has(skill, "keywords") /\ Len(skill.keywords) > 0
      THEN <<": ">> \o join(skill.keywords, <<", ">>) ELSE <<>>)

LanguageSection(lang) ==
  OrElse(lang, "language", <<"Language">>) \o <<": ">>
  \o OrElse(lang, "fluency", <<"Level not specified">>)

\* a plausible slip: a section is tested for presence only, so that an empty
\* list still gets its header
formatAsTextKeepsEmptySections(resumeData) ==
  LET work == ListOf(resumeData, "work")
      education == ListOf(resumeData, "education")
      skills == ListOf(resumeData, "skills")
      languages == ListOf(resumeData, "languages")
      sections ==
        BasicsSections(resumeData)
        \o (IF Has(resumeData, "work")
            THEN << <<"\n", "WORK EXPERIENCE:">> >>
                 \o Concat([k \in 1..Len(work) |-> JobSections(work[k])])
            ELSE <<>>)
        \o (IF Has(resumeData, "education")
            THEN << <<"\n", "EDUCATION:">> >>
                 \o Concat([k \in 1..Len(education) |->
                              EducationSections(education[k])])
            ELSE <<>>)
        \o (IF Has(resumeData, "skills")
            THEN << <<"\n", "SKILLS:">> >>
                 \o [k \in 1..Len(skills) |-> SkillSection(skills[k])]
            ELSE <<>>)
        \o (IF Has(resumeData, "languages")
            THEN << <<"\n", "LANGUAGES:">> >>
                 \o [k \in 1..Len(languages) |-> LanguageSection(languages[k])]
            ELSE <<>>)
  IN join(sections, <<"\n">>)

formatAsText(resumeData) ==
  LET work == ListOf(resumeData, "work")
      education == ListOf(resumeData, "education")
      skills == ListOf(resumeData, "skills")
      languages == ListOf(resumeData, "languages")
      sections ==
        BasicsSections(resumeData)
        \o (IF Len(work) > 0
            THEN << <<"\n", "WORK EXPERIENCE:">> >>
                 \o Concat([k \in 1..Len(work) |-> JobSections(work[k])])
            ELSE <<>>)
        \o (IF Len(education) > 0
            THEN << <<"\n", "EDUCATION:">> >>
                 \o Concat([k \in 1..Len(education) |->
                              EducationSections(education[k])])
            ELSE <<>>)
        \o (IF Len(skills) > 0
            THEN << <<"\n", "SKILLS:">> >>
                 \o [k \in 1..Len(skills) |-> SkillSection(skills[k])]
            ELSE <<>>)
        \o (IF Len(languages) > 0
            THEN << <<"\n", "LANGUAGES:">> >>
                 \o [k \in 1..Len(languages) |-> LanguageSection(languages[k])]
            ELSE <<>>)
  IN join(sections, <<"\n">>)

(***************************************************************************)
(* ResumeService.searchResume                                              *)
(***************************************************************************)
\* field?.toLowerCase().includes(searchTerm)
FieldIncludes(r, f, searchTerm) ==
  Has(r, f) /\ includes(toLowerCase(r[f]), searchTerm)

\* a plausible slip: the index is counted from 1
ResultsOneBased(list, hits, section, reason) ==
  [n \in 1..Len(hits) |->
     [section |-> section, index |-> hits[n],
      content |-> list[hits[n]], match |-> reason]]

\* the results pushed for the entries of list at the (1-based) positions
\* hits, each with its index in the list counted from 0
Results(list, hits, section, reason) ==
  [n \in 1..Len(hits) |->
     [section |-> section, index |-> hits[n] - 1,
      content |-> list[hits[n]], match |-> reason]]

\* a plausible slip: one result for every field of a job that contains the
\* term
WorkResultsPerField(work, searchTerm) ==
  LET fields == <<"company", "position", "summary">>
      tests == [n \in 1..(3 * Len(work)) |->
                  [k |-> ((n - 1) \div 3) + 1, f |-> fields[((n - 1) % 3) + 1]]]
      hits == SelectSeq(tests,
                        LAMBDA t : FieldIncludes(work[t.k], t.f, searchTerm))
  IN Results(work, [n \in 1..Len(hits) |-> hits[n].k],
             "work", "Work experience contains search term")

\* resumeData.work.forEach((job, index) => { if (...) results.push(...) })
WorkResults(work, searchTerm) ==
  LET JobMatches(job) ==
        \/ FieldIncludes(job, "company", searchTerm)
        \/ FieldIncludes(job, "position", searchTerm)
        \/ FieldIncludes(job, "summary", searchTerm)
  IN
  Results(work,
          SelectSeq([k \in 1..Len(work) |-> k],
                    LAMBDA k : JobMatches(work[k])),
          "work", "Work experience contains search term")

\* resumeData.skills.forEach((skill, index) => { if (...) results.push(...) })
SkillResults(skills, searchTerm) ==
  LET SkillMatches(skill) ==
        \/ FieldIncludes(skill, "name", searchTerm)
        \/ (Has(skill, "keywords") /\
            \E k \in 1..Len(skill.keywords) :
              includes(toLowerCase(skill.keywords[k]), searchTerm))
  IN
  Results(skills,
          SelectSeq([k \in 1..Len(skills) |-> k],
                    LAMBDA k : SkillMatches(skills[k])),
          "skills", "Skill contains search term")

searchResume(resumeData, query) ==
  LET searchTerm == toLowerCase(query) IN
  (IF Has(resumeData, "basics")
      /\ FieldIncludes(resumeData.basics, "summary", searchTerm)
   THEN << [section |-> "summary", content |-> resumeData.basics.summary,
            match |-> "Summary contains search term"] >>
   ELSE <<>>)
  \o WorkResults(ListOf(resumeData, "work"), searchTerm)
  \o SkillResults(ListOf(resumeData, "skills"), searchTerm)

(***************************************************************************)
(* ResumeServer: the tools/call and resources/read handlers.               *)
(***************************************************************************)
\* JSON.stringify(value, null, 2): the serialization of value
JSONStringify(value) == [json |-> value]

Returned(value) == [status |-> "returned", value |-> value, err |-> NoError]
Threw(error) == [status |-> "threw", value |-> Null, err |-> error]

\* value.toLowerCase() on an argument that is no string
NotAFunction ==
  [name |-> "TypeError", message |-> <<"toLowerCase is not a function">>]

ToolNames == {"get_resume", "get_experience", "get_skills", "search_resume"}

ResourceUris ==
  {"resume://cv", "resume://summary", "resume://experience", "resume://skills"}

ToolResult(text) == Returned([content |-> << [type |-> "text", text |-> text] >>])

\* a plausible slip: a filter that keeps nothing is reported as a fault
FilterByRejectsEmpty(list, f, arg) ==
  IF ~Truthy(arg) THEN ToolResult(JSONStringify(list))
  ELSE IF arg.t # "string" /\ \E k \in 1..Len(list) : Has(list[k], f)
  THEN Threw(NotAFunction)
  ELSE LET wanted == IF arg.t = "string" THEN toLowerCase(arg.s) ELSE <<>>
           keep(item) == Has(item, f) /\ includes(toLowerCase(item[f]), wanted)
           kept == IF arg.t = "string" THEN SelectSeq(list, keep) ELSE <<>>
       IN IF kept = <<>> THEN Threw(NewError(<<"No entry found">>))
          ELSE ToolResult(JSONStringify(kept))

\* a plausible slip: the texts are compared as they are written
FilterByCaseSensitive(list, f, arg) ==
  IF ~Truthy(arg) THEN ToolResult(JSONStringify(list))
  ELSE IF arg.t # "string" /\ \E k \in 1..Len(list) : Has(list[k], f)
  THEN Threw(NotAFunction)
  ELSE IF arg.t # "string" THEN ToolResult(JSONStringify(<<>>))
  ELSE LET keep(item) == Has(item, f) /\ includes(item[f], arg.s)
       IN ToolResult(JSONStringify(SelectSeq(list, keep)))

\* list.filter(item => item[f]?.toLowerCase().includes(arg.toLowerCase())),
\* guarded by `arg ? ... : list`
FilterBy(list, f, arg) ==
  IF ~Truthy(arg) THEN ToolResult(JSONStringify(list))
  ELSE IF arg.t # "string" /\ \E k \in 1..Len(list) : Has(list[k], f)
  THEN Threw(NotAFunction)
  ELSE IF arg.t # "string" THEN ToolResult(JSONStringify(<<>>))
  ELSE LET wanted == toLowerCase(arg.s)
           keep(item) == Has(item, f) /\ includes(toLowerCase(item[f]), wanted)
       IN ToolResult(JSONStringify(SelectSeq(list, keep)))

\* a plausible slip: any format that is given selects the text rendering
CallToolSwitchAnyFormatIsText(name, args, resumeData) ==
  CASE name = "get_resume" ->
         IF Truthy(args.format)
         THEN ToolResult(formatAsText(resumeData))
         ELSE ToolResult(JSONStringify(resumeData))
    [] name = "get_experience" ->
         FilterBy(ListOf(resumeData, "work"), "company", args.company)
    [] name = "get_skills" ->
         FilterBy(ListOf(resumeData, "skills"), "name", args.category)
    [] name = "search_resume" ->
         IF args.query.t = "number" THEN Threw(NotAFunction)
         ELSE LET query == IF args.query.t = "string"
                           THEN toLowerCase(args.query.s) ELSE <<>>
              IN ToolResult(JSONStringify(searchResume(resumeData, query)))
    [] OTHER -> Threw(NewError(<<"Unknown tool: ", name>>))

\* switch (name) of the tools/call handler, with the document in hand
CallToolSwitch(name, args, resumeData) ==
  CASE name = "get_resume" ->
         IF Truthy(args.format) /\ args.format = Str(<<"t", "e", "x", "t">>)
         THEN ToolResult(formatAsText(resumeData))
         ELSE ToolResult(JSONStringify(resumeData))
    [] name = "get_experience" ->
         FilterBy(ListOf(resumeData, "work"), "company", args.company)
    [] name = "get_skills" ->
         FilterBy(ListOf(resumeData, "skills"), "name", args.category)
    [] name = "search_resume" ->
         IF args.query.t = "number" THEN Threw(NotAFunction)
         ELSE LET query == IF args.query.t = "string"
                           THEN toLowerCase(args.query.s) ELSE <<>>
              IN ToolResult(JSONStringify(searchResume(resumeData, query)))
    [] OTHER -> Threw(NewError(<<"Unknown tool: ", name>>))

\* a plausible slip: a fault of the switch escapes the handler as it is
CallToolCatchRethrow(error) == Threw(error)

\* catch (error) { throw new Error(`Tool execution failed: ...`) }
CallToolCatch(error) ==
  Threw(NewError(<<"Tool execution failed: ">> \o MessageOf(error)))

\* the tools/call handler once getResume() has settled with `resume`
CallToolHandler(name, args, resume) ==
  IF resume.status = "threw" THEN CallToolCatch(resume.err)
  ELSE LET r == CallToolSwitch(name, args, resume.value) IN
       IF r.status = "threw" THEN CallToolCatch(r.err) ELSE r

ResourceContents(uri, mimeType, text) ==
  Returned([contents |-> << [uri |-> uri, mimeType |-> mimeType, text |-> text] >>])

\* a plausible slip: the summary is returned with the content type of the
\* other three resources
ReadResourceSwitchAllJson(uri, resumeData) ==
  CASE uri = "resume://cv" ->
         ResourceContents(uri, "application/json", JSONStringify(resumeData))
    [] uri = "resume://summary" ->
         ResourceContents(uri, "application/json",
           IF Has(resumeData, "basics")
           THEN OrElse(resumeData.basics, "summary", <<"No summary available">>)
           ELSE <<"No summary available">>)
    [] uri = "resume://experience" ->
         ResourceContents(uri, "application/json",
                          JSONStringify(ListOf(resumeData, "work")))
    [] uri = "resume://skills" ->
         ResourceContents(uri, "application/json",
                          JSONStringify(ListOf(resumeData, "skills")))
    [] OTHER -> Threw(NewError(<<"Unknown resource: ", uri>>))

\* a plausible slip: the sections are read without their defaults, so that
\* a missing summary gives an empty text and a missing list gives null
ReadResourceSwitchNoDefaults(uri, resumeData) ==
  CASE uri = "resume://cv" ->
         ResourceContents(uri, "application/json", JSONStringify(resumeData))
    [] uri = "resume://summary" ->
         ResourceContents(uri, "text/plain",
           IF Has(resumeData, "basics")
           THEN OrElse(resumeData.basics, "summary", <<>>)
           ELSE <<>>)
    [] uri = "resume://experience" ->
         ResourceContents(uri, "application/json",
                          JSONStringify(IF Has(resumeData, "work")
                                        THEN resumeData.work ELSE Null))
    [] uri = "resume://skills" ->
         ResourceContents(uri, "application/json",
                          JSONStringify(IF Has(resumeData, "skills")
                                        THEN resumeData.skills ELSE Null))
    [] OTHER -> Threw(NewError(<<"Unknown resource: ", uri>>))

\* switch (uri) of the resources/read handler, with the document in hand
ReadResourceSwitch(uri, resumeData) ==
  CASE uri = "resume://cv" ->
         ResourceContents(uri, "application/json", JSONStringify(resumeData))
    [] uri = "resume://summary" ->
         ResourceContents(uri, "text/plain",
           IF Has(resumeData, "basics")
           THEN OrElse(resumeData.basics, "summary", <<"No summary available">>)
           ELSE <<"No summary available">>)
    [] uri = "resume://experience" ->
         ResourceContents(uri, "application/json",
                          JSONStringify(ListOf(resumeData, "work")))
    [] uri = "resume://skills" ->
         ResourceContents(uri, "application/json",
                          JSONStringify(ListOf(resumeData, "skills")))
    [] OTHER -> Threw(NewError(<<"Unknown resource: ", uri>>))

\* catch (error) { throw new Error(`Failed to fetch resume data: ...`) }
ReadResourceCatch(error) ==
  Threw(NewError(<<"Failed to fetch resume data: ">> \o MessageOf(error)))

\* the resources/read handler once getResume() has settled with `resume`
ReadResourceHandler(uri, resume) ==
  IF resume.status = "threw" THEN ReadResourceCatch(resume.err)
  ELSE LET r == ReadResourceSwitch(uri, resume.value) IN
       IF r.status = "threw" THEN ReadResourceCatch(r.err) ELSE r

(***************************************************************************)
(* Requests.  A request is one call of getResume(), made directly or by a  *)
(* handler of the server.  `requests` keeps every request of the run in    *)
(* the order of issue, with what the call observed.                        *)
(***************************************************************************)
NoArgs ==
  [format |-> Undefined, company |-> Undefined,
   category |-> Undefined, query |-> Undefined]

Pending == [status |-> "pending", value |-> Null, err |-> NoError]

\* What the caller of getResume() does with its outcome.
Respond(kind, name, args, resume) ==
  CASE kind = "tools/call" -> CallToolHandler(name, args, resume)
    [] kind = "resources/read" -> ReadResourceHandler(name, resume)
    [] OTHER -> resume

\* const now = Date.now(); the cache check; on a miss the remote read starts.
Enter(kind, name, args) ==
  LET now == clock
      hit == CacheHit(cache, cacheTimestamp, now)
      resume == IF hit
                THEN [status |-> "returned", value |-> cache, err |-> NoError]
                ELSE Pending
  IN [kind |-> kind, name |-> name, args |-> args,
      phase |-> IF hit THEN "done" ELSE "fetching",
      now |-> now,
      hadEntry |-> cache # Null,
      age |-> now - cacheTimestamp,
      hit |-> hit,
      fetches |-> IF hit THEN 0 ELSE 1,
      response |-> [kind |-> "none"],
      resume |-> resume,
      out |-> IF hit THEN Respond(kind, name, args, resume) ELSE Pending,
      before |-> [cache |-> cache, cacheTimestamp |-> cacheTimestamp],
      after |-> [cache |-> cache, cacheTimestamp |-> cacheTimestamp],
      startSeq |-> eventSeq + 1,
      endSeq |-> IF hit THEN eventSeq + 1 ELSE 0]

Issue(kind, name, args) ==
  /\ requests' = Append(requests, Enter(kind, name, args))
  /\ issued' = issued + 1
  /\ eventSeq' = eventSeq + 1
  /\ UNCHANGED <<clientVars, connectionVars, gatewayVars, cache,
                 cacheTimestamp, clock, ticks, envCacheTimeout>>

\* Date.now() advances, at most limit times, by one of the TimeSteps
\* (milliseconds between two events).
Advance(limit) ==
  LET TimeSteps == {200000, 300000} IN
  /\ ticks < limit
  /\ \E d \in TimeSteps : clock' = clock + d
  /\ ticks' = ticks + 1
  /\ UNCHANGED <<clientVars, connectionVars, gatewayVars, cache,
                 cacheTimestamp, envCacheTimeout, requests, issued, eventSeq>>

\* A caller invokes resumeService.getResume().
GetResume ==
  /\ issued < MaxRequests
  /\ Issue("getResume", "", NoArgs)

\* The record of request q once its remote read has settled with answer
\* resp: the rest of getResume() and of its caller has run.
Settled(q, resp) ==
  LET m == GetResumeMiss(cache, cacheTimestamp, q.now, resp)
      resume == [status |-> m.status, value |-> m.value, err |-> m.err]
  IN [q EXCEPT !.phase = "done",
               !.response = resp,
               !.resume = resume,
               !.out = Respond(q.kind, q.name, q.args, resume),
               !.before = [cache |-> cache, cacheTimestamp |-> cacheTimestamp],
               !.after = [cache |-> m.cache,
                          cacheTimestamp |-> m.cacheTimestamp],
               !.endSeq = eventSeq + 1]

\* The remote read of request i settles with answer resp.
Settle(i, resp) ==
  LET q == requests[i]
      m == GetResumeMiss(cache, cacheTimestamp, q.now, resp)
  IN /\ q.phase = "fetching"
     /\ cache' = m.cache
     /\ cacheTimestamp' = m.cacheTimestamp
     /\ eventSeq' = eventSeq + 1
     /\ requests' = [requests EXCEPT ![i] = Settled(q, resp)]
     /\ UNCHANGED <<clientVars, connectionVars, gatewayVars, clock, ticks,
                    envCacheTimeout, issued>>

FetchSettles ==
  \E i \in 1..Len(requests) : \E resp \in Responses : Settle(i, resp)

\* cache: ResumeData | null = null; cacheTimestamp: number = 0.  The clock
\* starts at a time of day far beyond one cache timeout.  The environment
\* variable CACHE_TIMEOUT has one of the EnvCacheTimeoutValues; <<>> is
\* unset (or empty).
ServiceInit ==
  LET EnvCacheTimeoutValues ==
        { <<>>,
          <<"1", "0", "0", "0", "0", "0">>,
          <<"6", "0", "0", "0", "0", "0">> }
  IN
  /\ cache = Null
  /\ cacheTimestamp = 0
  /\ clock = 1000000
  /\ ticks = 0
  /\ envCacheTimeout \in EnvCacheTimeoutValues
  /\ requests = <<>>
  /\ issued = 0
  /\ eventSeq = 0

\* LLMProviders.initializeProviders(): the Map after the four
\* this.providers.set(key, {name, models, isAvailable, chat}) calls, as the
\* entries in the order of insertion
initializeProviders ==
  << [key |-> "ollama",
      value |->
        [name |-> "Ollama",
         models |-> <<"llama3.2", "llama3.1", "llama2", "codellama",
                      "mistral", "mixtral">>]],
     [key |-> "openrouter",
      value |->
        [name |-> "OpenRouter",
         models |-> <<"meta-llama/llama-3.1-8b-instruct:free",
                      "meta-llama/llama-3.2-3b-instruct:free",
                      "microsoft/phi-3-mini-128k-instruct:free",
                      "huggingfaceh4/zephyr-7b-beta:free">>]],
     [key |-> "huggingface",
      value |->
        [name |-> "Hugging Face",
         models |-> <<"microsoft/DialoGPT-medium", "google/flan-t5-large",
                      "microsoft/DialoGPT-large">>]],
     [key |-> "localai",
      value |->
        [name |-> "LocalAI",
         models |-> <<"gpt-3.5-turbo", "gpt-4", "llama-2-7b",
                      "codellama">>]] >>

\* this.providers.get(key): the value of the entry with the key, or
\* undefined
MapGet(map, key) ==
  LET found == SelectSeq(map, LAMBDA entry : entry.key = key)
  IN IF found = <<>> THEN Undefined ELSE found[1].value

\* `new MCPClient()` and `new LLMProviders()` when the module of the
\* gateway is loaded: transport and serverProcess are null, the SDK Client
\* is new, the registry is filled, no method has been called and
\* startServer() has not run yet
Constructed ==
  /\ providers = initializeProviders
  /\ calls = <<>>
  /\ mcpClient = [transport |-> Null, serverProcess |-> Null,
                  client |-> "new"]
  /\ children = <<>>
  /\ gateway = [phase |-> "loaded", listened |-> FALSE, exitCode |-> Null]

\* no gateway process is attached to the server
NoGateway ==
  /\ llmConfig = [openRouter |-> Undefined, huggingFace |-> Undefined]
  /\ llmCalls = <<>>
  /\ chats = <<>>
  /\ received = <<>>
  /\ sent = <<>>
  /\ Constructed

Init == ServiceInit /\ NoGateway

Tick == Advance(MaxTicks)

Next == Tick \/ GetResume \/ FetchSettles

Spec == Init /\ [][Next]_vars

(***************************************************************************)
(* The server: requests arrive at the tools/call and resources/read        *)
(* handlers.  Only the requests still waiting for the store and the one    *)
(* that completed last are kept.                                           *)
(***************************************************************************)
\* requests handled in one run of ServerSpec
MaxServerRequests == 2
\* handlers waiting for the store at the same time in ServerSpec
MaxInFlight == 1
\* advances of Date.now() in one run of ServerSpec
MaxServerTicks == 1

WithArg(f, v) == [NoArgs EXCEPT ![f] = v]

\* the tools/call requests of the model
ToolCalls ==
  { [name |-> "get_resume", args |-> NoArgs],
    [name |-> "get_resume", args |-> WithArg("format", Str(<<"t", "e", "x", "t">>))],
    [name |-> "get_resume", args |-> WithArg("format", Str(<<"x", "m", "l">>))],
    [name |-> "get_experience", args |-> NoArgs],
    [name |-> "get_experience",
     args |-> WithArg("company", Str(<<"a", "c", "m", "e">>))],
    [name |-> "get_experience",
     args |-> WithArg("company", Str(<<"z", "z", "z">>))],
    [name |-> "get_experience", args |-> WithArg("company", Num(123))],
    [name |-> "get_skills",
     args |-> WithArg("category", Str(<<"B", "a", "c", "k">>))],
    [name |-> "get_skills", args |-> WithArg("category", Num(123))],
    [name |-> "search_resume",
     args |-> WithArg("query", Str(<<"P", "y", "t", "h", "o", "n">>))],
    [name |-> "search_resume", args |-> NoArgs],
    [name |-> "search_resume", args |-> WithArg("query", Num(7))],
    [name |-> "delete_resume", args |-> NoArgs] }

Unfinished(reqs) == SelectSeq(reqs, LAMBDA q : q.phase # "done")

\* a plausible slip: a request answered from the slot renews its timestamp
ServerIssueRenews(kind, name, args) ==
  /\ issued < MaxServerRequests
  /\ Len(Unfinished(requests)) < MaxInFlight
  /\ requests' = Append(Unfinished(requests), Enter(kind, name, args))
  /\ issued' = issued + 1
  /\ eventSeq' = eventSeq + 1
  /\ cacheTimestamp' = IF Enter(kind, name, args).hit THEN clock
                       ELSE cacheTimestamp
  /\ UNCHANGED <<clientVars, connectionVars, gatewayVars, cache, clock,
                 ticks, envCacheTimeout>>

\* A request arrives at a handler, which calls getResume().
ServerIssue(kind, name, args) ==
  /\ issued < MaxServerRequests
  /\ Len(Unfinished(requests)) < MaxInFlight
  /\ requests' = Append(Unfinished(requests), Enter(kind, name, args))
  /\ issued' = issued + 1
  /\ eventSeq' = eventSeq + 1
  /\ UNCHANGED <<clientVars, connectionVars, gatewayVars, cache,
                 cacheTimestamp, clock, ticks, envCacheTimeout>>

\* A tools/call request arrives.
CallTool == \E c \in ToolCalls : ServerIssue("tools/call", c.name, c.args)

\* A resources/read request arrives, for a listed uri or another one.
ReadResource ==
  LET ReadUris == ResourceUris \cup {"resume://references"} IN
  \E uri \in ReadUris : ServerIssue("resources/read", uri, NoArgs)

\* The remote read of a handler's getResume() settles.
ServerSettle(i, resp) ==
  LET q == requests[i]
      m == GetResumeMiss(cache, cacheTimestamp, q.now, resp)
  IN /\ q.phase = "fetching"
     /\ cache' = m.cache
     /\ cacheTimestamp' = m.cacheTimestamp
     /\ eventSeq' = eventSeq + 1
     /\ requests' =
          Unfinished([requests EXCEPT ![i] = [q EXCEPT !.phase = "done"]])
          \o <<Settled(q, resp)>>
     /\ UNCHANGED <<clientVars, connectionVars, gatewayVars, clock, ticks,
                    envCacheTimeout, issued>>

\* The fetch of a request settles with one of the store's answers in
\* ServerSpec: unreachable, or a document.
ServerFetchSettles ==
  LET ServerResponses ==
        {r \in Responses : r.kind \in {"unreachable", "document"}}
  IN \E i \in 1..Len(requests) : \E resp \in ServerResponses :
       ServerSettle(i, resp)

ServerInit == Init /\ envCacheTimeout = <<>>

ServerTick == Advance(MaxServerTicks)

ServerNext == ServerTick \/ CallTool \/ ReadResource \/ ServerFetchSettles

ServerSpec == ServerInit /\ [][ServerNext]_vars

(***************************************************************************)
(* The catalogues: the resources/list and tools/list handlers return a     *)
(* literal and never call getResume().                                     *)
(***************************************************************************)
\* the ListResourcesRequestSchema handler
ListResourcesHandler ==
  LET Resource(uri, name, description, mimeType) ==
        [uri |-> uri, name |-> name, description |-> description,
         mimeType |-> mimeType]
  IN
  Returned(
    [resources |->
       << Resource("resume://cv", "Michael Wybraniec - CV",
                   "Complete CV/Resume data from GitHub gist",
                   "application/json"),
          Resource("resume://summary",
                   "Michael Wybraniec - Professional Summary",
                   "Professional summary from CV", "text/plain"),
          Resource("resume://experience",
                   "Michael Wybraniec - Work Experience",
                   "Work experience details from CV", "application/json"),
          Resource("resume://skills", "Michael Wybraniec - Skills",
                   "Technical and professional skills",
                   "application/json") >>])

\* the ListToolsRequestSchema handler; of the inputSchema of a tool, the
\* names of the properties and the required ones
ListToolsHandler ==
  LET Tool(name, description, properties, required) ==
        [name |-> name, description |-> description,
         inputSchema |-> [type |-> "object", properties |-> properties,
                          required |-> required]]
  IN
  Returned(
    [tools |->
       << Tool("get_resume", "Get the complete CV/Resume data",
               {"format"}, {}),
          Tool("get_experience", "Get work experience details",
               {"company"}, {}),
          Tool("get_skills", "Get technical and professional skills",
               {"category"}, {}),
          Tool("search_resume", "Search for specific content in the resume",
               {"query"}, {"query"}) >>])

\* a plausible slip: the list handlers get the document first, as the
\* other two handlers do
ServerAnswersViaStore(kind, out) ==
  /\ issued < MaxServerRequests
  /\ requests' =
       Append(Unfinished(requests),
              [Enter(kind, "", NoArgs) EXCEPT
                 !.out = IF @ = Pending THEN Pending ELSE out])
  /\ issued' = issued + 1
  /\ eventSeq' = eventSeq + 1
  /\ UNCHANGED <<clientVars, connectionVars, gatewayVars, cache,
                 cacheTimestamp, clock, ticks, envCacheTimeout>>

\* A request arrives whose handler answers at once, without getResume().
ServerAnswers(kind, out) ==
  /\ issued < MaxServerRequests
  /\ requests' =
       Append(Unfinished(requests),
              [Enter(kind, "", NoArgs) EXCEPT
                 !.phase = "done", !.hit = FALSE, !.fetches = 0,
                 !.resume = Pending, !.out = out, !.endSeq = eventSeq + 1])
  /\ issued' = issued + 1
  /\ eventSeq' = eventSeq + 1
  /\ UNCHANGED <<clientVars, connectionVars, gatewayVars, cache,
                 cacheTimestamp, clock, ticks, envCacheTimeout>>

\* A resources/list request arrives.
ListResources == ServerAnswers("resources/list", ListResourcesHandler)

\* A tools/list request arrives.
ListTools == ServerAnswers("tools/list", ListToolsHandler)

CatalogueNext ==
  ListResources \/ ListTools \/ CallTool \/ ReadResource \/ ServerFetchSettles

\* CatalogueSpec: clients list the catalogues and use what is listed
CatalogueSpec == ServerInit /\ [][CatalogueNext]_vars

(***************************************************************************)
(* The Provider Registry (LLMProviders).  An answer of a remote end-point  *)
(* is unreachable, or a response with a status and a body; the body of a   *)
(* success response has the shape of the provider's API, and `text` is the *)
(* text generated in it (for Hugging Face, generated_text without the      *)
(* echoed prompt).                                                         *)
(***************************************************************************)
\* this.providers: the keys of the Map filled by initializeProviders()
ProviderNames == {"ollama", "openrouter", "huggingface", "localai"}

\* the name each provider puts in its error messages
ApiName(providerName) ==
  CASE providerName = "ollama" -> "Ollama"
    [] providerName = "openrouter" -> "OpenRouter"
    [] providerName = "huggingface" -> "Hugging Face"
    [] OTHER -> "LocalAI"

\* the providers whose isAvailable() asks the end-point
ProbesEndpoint(providerName) == providerName \in {"ollama", "localai"}

\* config.openRouter.apiKey / config.huggingFace.apiKey
ApiKey(config, providerName) ==
  IF providerName = "openrouter" THEN config.openRouter ELSE config.huggingFace

NoAnswer == [kind |-> "none", ok |-> FALSE, statusText |-> "", text |-> <<>>]

Unreachable ==
  [kind |-> "unreachable", ok |-> FALSE, statusText |-> "", text |-> <<>>]

HttpResponse(ok, statusText, text) ==
  [kind |-> "response", ok |-> ok, statusText |-> statusText, text |-> text]

\* the answers to GET /api/tags and GET /v1/models
ProbeAnswers ==
  { Unreachable,
    HttpResponse(FALSE, "Internal Server Error", <<>>),
    HttpResponse(TRUE, "OK", <<>>) }

\* the answers to the generation request of provider.chat
UpstreamAnswers ==
  { Unreachable,
    HttpResponse(FALSE, "Service Unavailable", <<>>),
    HttpResponse(TRUE, "OK", <<"H", "i">>),
    HttpResponse(TRUE, "OK", <<>>) }

\* a plausible slip: a provider is taken as available whatever the probe
\* says
IsAvailableAlways(providerName, config, answer) == TRUE

\* provider.isAvailable(): `response.ok`, false when fetch throws; or
\* `!!config.<provider>.apiKey`
isAvailable(providerName, config, answer) ==
  IF ProbesEndpoint(providerName)
  THEN answer.kind = "response" /\ answer.ok
  ELSE Truthy(ApiKey(config, providerName))

\* a plausible slip: an error response is answered with a stand-in text
ProviderChatSubstitutes(providerName, answer) ==
  IF answer.kind = "unreachable"
  THEN Threw([name |-> "FetchError", message |-> <<"request failed">>])
  ELSE IF ~answer.ok THEN Returned(<<"No response">>)
  ELSE IF providerName = "huggingface" /\ answer.text = <<>>
  THEN Returned(<<"No response">>)
  ELSE Returned(answer.text)

\* provider.chat() after its fetch has settled: `if (!response.ok) throw`,
\* then the generated text of the body
ProviderChatSettled(providerName, answer) ==
  IF answer.kind = "unreachable"
  THEN Threw([name |-> "FetchError", message |-> <<"request failed">>])
  ELSE IF ~answer.ok
  THEN Threw(NewError(<<ApiName(providerName), " API error: ",
                        answer.statusText>>))
  ELSE IF providerName = "huggingface" /\ answer.text = <<>>
  THEN Returned(<<"No response">>)
  ELSE Returned(answer.text)

NoCall ==
  [provider |-> "", model |-> "", message |-> Undefined, context |-> Null,
   pc |-> "none", probes |-> 0, delegated |-> 0, probe |-> NoAnswer,
   upstream |-> NoAnswer, out |-> Pending, startSeq |-> 0, endSeq |-> 0]

\* LLMProviders.chat up to its first await: the look-up in the Map, then
\* the call of provider.isAvailable()
LlmChatEnter(providerName, model, message, context, seq) ==
  LET call == [NoCall EXCEPT !.provider = providerName, !.model = model,
                             !.message = message, !.context = context,
                             !.startSeq = seq]
  IN IF MapGet(providers, providerName) = Undefined
     THEN [call EXCEPT
             !.pc = "done",
             !.out = Threw(NewError(<<"Provider ", providerName,
                                      " not found">>)),
             !.endSeq = seq]
     ELSE [call EXCEPT !.pc = "probe", !.probes = 1]

\* provider.chat() up to its first await: the providers with a key check
\* it again, then the upstream request starts
ProviderChatEnter(call, config, seq) ==
  IF ~ProbesEndpoint(call.provider) /\ ~Truthy(ApiKey(config, call.provider))
  THEN [call EXCEPT
          !.pc = "done", !.delegated = 1,
          !.out = Threw(NewError(<<ApiName(call.provider),
                                   " API key not configured">>)),
          !.endSeq = seq]
  ELSE [call EXCEPT !.pc = "chat", !.delegated = 1]

\* a plausible slip: the provider's chat is called although the probe said
\* no
LlmProbeSettledDelegatesAnyway(call, config, answer, seq) ==
  ProviderChatEnter([call EXCEPT !.probe = answer], config, seq)

\* LLMProviders.chat once `await provider.isAvailable()` has settled
LlmProbeSettled(call, config, answer, seq) ==
  IF ~isAvailable(call.provider, config, answer)
  THEN [call EXCEPT
          !.pc = "done", !.probe = answer,
          !.out = Threw(NewError(<<"Provider ", call.provider,
                                   " is not available">>)),
          !.endSeq = seq]
  ELSE ProviderChatEnter([call EXCEPT !.probe = answer], config, seq)

\* LLMProviders.chat once the upstream request of provider.chat has settled
LlmUpstreamSettled(call, answer, seq) ==
  [call EXCEPT !.pc = "done", !.upstream = answer,
               !.out = ProviderChatSettled(call.provider, answer),
               !.endSeq = seq]

\* the answers the probe of a call can get: the end-point's, or none for a
\* provider that only looks at its key
ProbeAnswersOf(call) ==
  IF ProbesEndpoint(call.provider) THEN ProbeAnswers ELSE {NoAnswer}

(***************************************************************************)
(* ProviderSpec: callers invoke LLMProviders.chat directly.  `llmCalls`    *)
(* keeps every call of the run in the order of issue.                      *)
(***************************************************************************)
\* calls of LLMProviders.chat in one run of ProviderSpec
MaxLlmCalls == 2

serviceVars ==
  <<cache, cacheTimestamp, clock, ticks, envCacheTimeout, requests, issued>>

\* A caller invokes llmProviders.chat(providerName, model, message, context)
\* for a registered provider or another one, with the message and the
\* context of the calls of ProviderSpec.
LlmChat ==
  LET RequestedProviders == ProviderNames \cup {"gpt4all"}
      SomeMessage == Str(<<"H", "e", "l", "l", "o">>)
      SomeContext ==
        [head |-> "Resume Summary:\n", body |-> [chars |-> <<"A", "n", "n">>]]
  IN
  \E providerName \in RequestedProviders :
    /\ Len(llmCalls) < MaxLlmCalls
    /\ llmCalls' = Append(llmCalls,
                          LlmChatEnter(providerName, "model", SomeMessage,
                                       SomeContext, eventSeq + 1))
    /\ eventSeq' = eventSeq + 1
    /\ UNCHANGED <<clientVars, connectionVars, serviceVars, llmConfig, chats>>

\* a plausible slip: the answer of the provider's first probe is remembered
\* and later calls are decided by it
LlmProbeSettlesCached(k, answer) ==
  LET earlier == {i \in 1..(k - 1) :
                    /\ llmCalls[i].provider = llmCalls[k].provider
                    /\ llmCalls[i].pc \in {"chat", "done"}}
      first == CHOOSE i \in earlier : \A j \in earlier : i <= j
      remembered == IF earlier = {} THEN answer ELSE llmCalls[first].probe
      settled == LlmProbeSettled(llmCalls[k], llmConfig, remembered,
                                 eventSeq + 1)
  IN /\ llmCalls[k].pc = "probe"
     /\ llmCalls' = [llmCalls EXCEPT ![k] = [settled EXCEPT !.probe = answer]]
     /\ eventSeq' = eventSeq + 1
     /\ UNCHANGED <<clientVars, connectionVars, serviceVars, llmConfig, chats>>

\* The probe of call k settles.
LlmProbeSettles(k, answer) ==
  /\ llmCalls[k].pc = "probe"
  /\ llmCalls' = [llmCalls EXCEPT
                    ![k] = LlmProbeSettled(@, llmConfig, answer, eventSeq + 1)]
  /\ eventSeq' = eventSeq + 1
  /\ UNCHANGED <<clientVars, connectionVars, serviceVars, llmConfig, chats>>

ProbeSettles ==
  \E k \in 1..Len(llmCalls) :
    \E answer \in ProbeAnswersOf(llmCalls[k]) : LlmProbeSettles(k, answer)

\* The upstream request of call k settles.
LlmUpstreamSettles(k, answer) ==
  /\ llmCalls[k].pc = "chat"
  /\ llmCalls' = [llmCalls EXCEPT
                    ![k] = LlmUpstreamSettled(@, answer, eventSeq + 1)]
  /\ eventSeq' = eventSeq + 1
  /\ UNCHANGED <<clientVars, connectionVars, serviceVars, llmConfig, chats>>

UpstreamSettles ==
  \E k \in 1..Len(llmCalls) :
    \E answer \in UpstreamAnswers : LlmUpstreamSettles(k, answer)

\* LlmConfigs: process.env.OPENROUTER_API_KEY and
\* process.env.HUGGINGFACE_API_KEY, read once when the gateway starts
ProviderInit ==
  LET LlmConfigs ==
        { [openRouter |-> Str(<<"k", "1">>), huggingFace |-> Undefined],
          [openRouter |-> Undefined, huggingFace |-> Str(<<"k", "2">>)] }
  IN
  /\ ServiceInit
  /\ envCacheTimeout = <<>>
  /\ llmConfig \in LlmConfigs
  /\ llmCalls = <<>>
  /\ chats = <<>>
  /\ received = <<>>
  /\ sent = <<>>
  /\ Constructed

ProviderNext == LlmChat \/ ProbeSettles \/ UpstreamSettles

ProviderSpec == ProviderInit /\ [][ProviderNext]_vars

(***************************************************************************)
(* The gateway (client/src/server.ts): context selection, the MCP client   *)
(* and the chat requests.  A context is the head the template string       *)
(* starts with and the body interpolated after it.  client.request() is    *)
(* the round trip of the protocol: it delivers the result or the error of  *)
(* the server's handler.                                                   *)
(***************************************************************************)
\* lowerMessage.includes(w) for one of the words
IncludesAny(lowerMessage, words) == \E w \in words : includes(lowerMessage, w)

ExperienceWords ==
  { <<"e", "x", "p", "e", "r", "i", "e", "n", "c", "e">>,
    <<"w", "o", "r", "k">>,
    <<"j", "o", "b">> }

SkillWords ==
  { <<"s", "k", "i", "l", "l">>,
    <<"t", "e", "c", "h", "n", "o", "l", "o", "g", "y">>,
    <<"p", "r", "o", "g", "r", "a", "m", "m", "i", "n", "g">> }

SearchWords == {<<"s", "e", "a", "r", "c", "h">>,
               <<"f", "i", "n", "d">>}

\* String.prototype.split(' ')
RECURSIVE split(_)
split(s) ==
  IF \A k \in 1..Len(s) : s[k] # " " THEN <<s>>
  ELSE LET k == CHOOSE i \in 1..Len(s) :
                  s[i] = " " /\ \A j \in 1..(i - 1) : s[j] # " "
       IN <<SubSeq(s, 1, k - 1)>> \o split(SubSeq(s, k + 1, Len(s)))

skipWords ==
  { <<"s", "e", "a", "r", "c", "h">>, <<"f", "i", "n", "d">>,
    <<"l", "o", "o", "k">>, <<"f", "o", "r">>,
    <<"a", "b", "o", "u", "t">>, <<"w", "h", "a", "t">>,
    <<"w", "h", "e", "n">>, <<"w", "h", "e", "r", "e">>,
    <<"h", "o", "w">>, <<"t", "h", "e">>,
    <<"a">>, <<"a", "n">>,
    <<"i", "s">>, <<"a", "r", "e">>,
    <<"w", "a", "s">>, <<"w", "e", "r", "e">> }

\* a plausible slip: words of exactly two characters are kept
extractSearchTermsKeepsShort(message) ==
  SelectSeq(split(toLowerCase(message)),
            LAMBDA word : Len(word) >= 2 /\ word \notin skipWords)

\* words.filter(word => word.length > 2 && !skipWords.includes(word))
extractSearchTerms(message) ==
  SelectSeq(split(toLowerCase(message)),
            LAMBDA word : Len(word) > 2 /\ word \notin skipWords)

ToolCall(rule, tool, args) == [rule |-> rule, tool |-> tool, args |-> args]

\* a plausible slip: the skills rule is tested before the experience rule
SelectContextSkillsFirst(message) ==
  IF message.t # "string" THEN ToolCall(0, "", NoArgs)
  ELSE LET lowerMessage == toLowerCase(message.s)
           searchTerms == extractSearchTerms(message.s)
       IN IF IncludesAny(lowerMessage, SkillWords)
          THEN ToolCall(2, "get_skills", NoArgs)
          ELSE IF IncludesAny(lowerMessage, ExperienceWords)
          THEN ToolCall(1, "get_experience", NoArgs)
          ELSE IF IncludesAny(lowerMessage, SearchWords) /\ Len(searchTerms) > 0
          THEN ToolCall(3, "search_resume",
                        WithArg("query", Str(join(searchTerms, <<" ">>))))
          ELSE ToolCall(4, "get_resume",
                        WithArg("format", Str(<<"t", "e", "x", "t">>)))

\* getResumeContext up to its await: the tool call it makes.  Rule 0 is a
\* message without toLowerCase: the TypeError goes to the catch and no tool
\* is called.
SelectContext(message) ==
  IF message.t # "string" THEN ToolCall(0, "", NoArgs)
  ELSE LET lowerMessage == toLowerCase(message.s)
           searchTerms == extractSearchTerms(message.s)
       IN IF IncludesAny(lowerMessage, ExperienceWords)
          THEN ToolCall(1, "get_experience", NoArgs)
          ELSE IF IncludesAny(lowerMessage, SkillWords)
          THEN ToolCall(2, "get_skills", NoArgs)
          ELSE IF IncludesAny(lowerMessage, SearchWords) /\ Len(searchTerms) > 0
          THEN ToolCall(3, "search_resume",
                        WithArg("query", Str(join(searchTerms, <<" ">>))))
          ELSE ToolCall(4, "get_resume",
                        WithArg("format", Str(<<"t", "e", "x", "t">>)))

\* MCPClient.callTool once the request has settled with the handler's
\* outcome: `return response.content`, or the wrapped error
callTool(name, out) ==
  IF out.status = "threw"
  THEN Threw(NewError(<<"Failed to call tool ", name, ": ">>
                      \o MessageOf(out.err)))
  ELSE Returned(out.value.content)

Context(head, body) == [head |-> head, body |-> body]

Placeholder ==
  Context("Resume data is currently unavailable.", [chars |-> <<>>])

\* a plausible slip: getResumeContext has no catch
GetResumeContextRethrows(rule, called) ==
  IF rule = 0 THEN Threw(NotAFunction)
  ELSE IF called.status = "threw" THEN called
  ELSE Returned(Context("Resume Summary:\n", [chars |-> <<>>]))

\* getResumeContext after its await (or after the TypeError of rule 0):
\* the template string of the branch, or the placeholder of the catch.
\* `${value}` for an array of objects: Array.prototype.toString joins the
\* elements' strings with commas, and an object's string is
\* '[object Object]'.
GetResumeContextSettled(rule, called) ==
  LET TemplateOfArray(value) ==
        join([k \in 1..Len(value) |-> <<"[object Object]">>], <<",">>)
  IN
  IF rule = 0 \/ called.status = "threw" THEN Returned(Placeholder)
  ELSE CASE rule = 1 ->
              Returned(Context("Work Experience:\n",
                               JSONStringify(called.value)))
         [] rule = 2 ->
              Returned(Context("Skills:\n", JSONStringify(called.value)))
         [] rule = 3 ->
              Returned(Context("Search Results:\n",
                               JSONStringify(called.value)))
         [] OTHER ->
              Returned(Context("Resume Summary:\n",
                               [chars |-> TemplateOfArray(called.value)]))

\* a plausible slip: the failure reply is sent after a partial success
\* reply
ChatRepliesPartial(via, resumeContext, out) ==
  IF out.status = "returned"
  THEN << [via |-> via, payload |-> [response |-> out.value,
                                     context |-> resumeContext]] >>
  ELSE << [via |-> via, payload |-> [context |-> resumeContext]],
          [via |-> via, payload |-> [error |-> MessageOf(out.err)]] >>

\* ws.send(...) of handleChatMessage and res.json(...) of POST /api/chat,
\* once llmProviders.chat or getResumeContext has settled with `out`
ChatReplies(via, resumeContext, out) ==
  IF out.status = "returned"
  THEN IF via = "ws"
       THEN << [via |-> via,
                payload |-> [type |-> "chat_response", response |-> out.value,
                             context |-> resumeContext]] >>
       ELSE << [via |-> via,
                payload |-> [response |-> out.value,
                             context |-> resumeContext]] >>
  ELSE IF via = "ws"
       THEN << [via |-> via,
                payload |-> [type |-> "error",
                             error |-> <<"Chat error: ">>
                                       \o MessageOf(out.err)]] >>
       ELSE << [via |-> via, payload |-> [error |-> MessageOf(out.err)]] >>

\* the handler after llmProviders.chat has moved to `call`: the reply is
\* sent when the call has settled
AfterLlm(chat, call) ==
  IF call.pc = "done"
  THEN [chat EXCEPT !.pc = "done", !.llm = call,
                    !.replies = @ \o ChatReplies(chat.via, chat.got.value,
                                                 call.out)]
  ELSE [chat EXCEPT !.pc = call.pc, !.llm = call]

\* no tool call was made
NoRequest ==
  [phase |-> "none", name |-> "", args |-> NoArgs, resume |-> Pending,
   out |-> Pending]

\* what the gateway's side keeps of the server's request record q
Outcome(q) ==
  [phase |-> q.phase, name |-> q.name, args |-> q.args, resume |-> q.resume,
   out |-> q.out]

\* the handler once the tool call of getResumeContext has settled with the
\* server's request record q (NoRequest when no tool was called): the
\* context, then llmProviders.chat(provider, model, message, context)
AfterContext(chat, q) ==
  LET called == IF chat.plan.rule = 0 THEN Pending
                ELSE callTool(chat.plan.tool, q.out)
      got == GetResumeContextSettled(chat.plan.rule, called)
      c == [chat EXCEPT !.req = Outcome(q), !.called = called, !.got = got]
  IN IF got.status = "threw"
     THEN [c EXCEPT !.pc = "done",
                    !.replies = @ \o ChatReplies(chat.via, Placeholder, got)]
     ELSE AfterLlm(c, LlmChatEnter(chat.provider, chat.model, chat.message,
                                   got.value, 0))

(***************************************************************************)
(* GatewaySpec: chat requests arrive at the gateway, which is the only     *)
(* client of the server.  The request a chat makes to the server is kept   *)
(* in the chat's record, and `issued` counts the chat requests.  Only the  *)
(* chat requests in progress and the one that completed last are kept.     *)
(***************************************************************************)
\* chat requests in one run of GatewaySpec
MaxChats == 2
\* chat requests in progress at the same time in GatewaySpec
MaxChatsInFlight == 1

\* the messages of the chat requests
ChatMessages ==
  { Undefined,
    Str(<<"T", "e", "l", "l", " ", "m", "e", " ", "a", "b", "o", "u", "t",
          " ", "h", "i", "s", " ", "s", "k", "i", "l", "l", "s">>),
    Str(<<"f", "i", "n", "d", " ", "p", "y", "t", "h", "o", "n", " ", "p",
          "r", "o", "j", "e", "c", "t", "s">>),
    Str(<<"F", "i", "n", "d", " ", "j", "o", "b", " ", "s", "k", "i", "l",
          "l", "s">>),
    Str(<<"f", "i", "n", "d", " ", "i", "t">>) }

\* the tool call getResumeContext makes for each message
ContextPlans == [message \in ChatMessages |-> SelectContext(message)]


\* the chat requests in progress and chat request id
KeepChat(cs, id) == SelectSeq(cs, LAMBDA c : c.pc # "done" \/ c.id = id)

NewChat(via, message, provider) ==
  [id |-> issued + 1, via |-> via, message |-> message,
   provider |-> provider, model |-> "model", pc |-> "context",
   plan |-> ContextPlans[message], req |-> NoRequest, called |-> Pending,
   got |-> Pending, llm |-> NoCall, replies |-> <<>>]

\* A chat request arrives ('chat' message on a WebSocket, or POST
\* /api/chat): getResumeContext runs to its await, and beyond it when the
\* server answers from its cache or no tool is called.
ChatArrives(via, message, provider) ==
  LET UnfinishedChats(cs) == SelectSeq(cs, LAMBDA c : c.pc # "done")
      chat == NewChat(via, message, provider)
      q == IF chat.plan.rule = 0 THEN NoRequest
           ELSE Enter("tools/call", chat.plan.tool, chat.plan.args)
  IN /\ issued < MaxChats
     /\ Len(UnfinishedChats(chats)) < MaxChatsInFlight
     /\ issued' = issued + 1
     /\ chats' = KeepChat(Append(chats,
                                 IF q.phase = "fetching"
                                 THEN [chat EXCEPT !.req = q]
                                 ELSE AfterContext(chat, q)),
                          chat.id)
     /\ UNCHANGED <<clientVars, connectionVars, cache, cacheTimestamp, clock,
                    ticks, envCacheTimeout, requests, eventSeq, llmConfig,
                    llmCalls>>

\* the chat requests name a registered provider or another one
Chat ==
  LET ChatProviders == {"ollama", "gpt4all"} IN
  \E via \in {"ws", "http"} : \E message \in ChatMessages :
    \E provider \in ChatProviders : ChatArrives(via, message, provider)

\* a plausible slip: a remote read that fails is tried a second time before
\* the failure is reported
ToolSettlesRetries(c, resp) ==
  LET chat == chats[c]
      q == chat.req
      m == GetResumeMiss(cache, cacheTimestamp, q.now, resp)
  IN /\ chat.pc = "context"
     /\ cache' = m.cache
     /\ cacheTimestamp' = m.cacheTimestamp
     /\ chats' = KeepChat([chats EXCEPT
                             ![c] = IF m.status = "threw" /\ q.fetches = 1
                                    THEN [chat EXCEPT !.req.fetches = 2,
                                                      !.req.response = resp]
                                    ELSE AfterContext(chat, Settled(q, resp))],
                          chat.id)
     /\ UNCHANGED <<clientVars, connectionVars, clock, ticks, envCacheTimeout,
                    requests, issued, eventSeq, llmConfig, llmCalls>>

\* The remote read of the server's getResume() settles for the tool call
\* of chat request c: the server's handler completes, and the gateway goes
\* on with its result.
ToolSettles(c, resp) ==
  LET chat == chats[c]
      q == chat.req
      m == GetResumeMiss(cache, cacheTimestamp, q.now, resp)
  IN /\ chat.pc = "context"
     /\ cache' = m.cache
     /\ cacheTimestamp' = m.cacheTimestamp
     /\ chats' = KeepChat([chats EXCEPT
                             ![c] = AfterContext(chat, Settled(q, resp))],
                          chat.id)
     /\ UNCHANGED <<clientVars, connectionVars, clock, ticks, envCacheTimeout,
                    requests, issued, eventSeq, llmConfig, llmCalls>>

\* the store's answers in GatewaySpec: unreachable, or the full document
GatewayResponses ==
  { [kind |-> "unreachable"], [kind |-> "document", doc |-> DocA] }

ChatToolSettles ==
  \E c \in 1..Len(chats) : \E resp \in GatewayResponses : ToolSettles(c, resp)

\* The probe of the provider of chat request c settles.
ChatProbeSettles ==
  \E c \in 1..Len(chats) : \E answer \in ProbeAnswersOf(chats[c].llm) :
    /\ chats[c].pc = "probe"
    /\ chats' =
         KeepChat([chats EXCEPT
                     ![c] = AfterLlm(@, LlmProbeSettled(@.llm, llmConfig,
                                                        answer, 0))],
                  chats[c].id)
    /\ UNCHANGED <<clientVars, connectionVars, serviceVars, eventSeq,
                   llmConfig, llmCalls>>

\* The upstream request of the provider of chat request c settles.
ChatUpstreamSettles ==
  \E c \in 1..Len(chats) : \E answer \in UpstreamAnswers :
    /\ chats[c].pc = "chat"
    /\ chats' =
         KeepChat([chats EXCEPT
                     ![c] = AfterLlm(@, LlmUpstreamSettled(@.llm, answer, 0))],
                  chats[c].id)
    /\ UNCHANGED <<clientVars, connectionVars, serviceVars, eventSeq,
                   llmConfig, llmCalls>>

\* the gateway has started: mcpClient.connect() succeeded, the server's
\* cache is empty, and no provider key is configured
GatewayInit == ServiceInit /\ envCacheTimeout = <<>> /\ NoGateway

GatewayNext ==
  Chat \/ ChatToolSettles \/ ChatProbeSettles \/ ChatUpstreamSettles

GatewaySpec == GatewayInit /\ [][GatewayNext]_vars

(***************************************************************************)
(* DocumentSpec: the formatter and the search applied to documents of many *)
(* shapes.  The server holds a fresh cache entry (a getResume() call has   *)
(* just succeeded), and get_resume with format text and search_resume are  *)
(* called on it.                                                           *)
(***************************************************************************)
\* the documents of DocumentSpec: every section absent, empty or filled,
\* the filled ones in either order of their entries.  A section is absent
\* or given with a value, and the document is made of the given ones.
RichDocuments ==
  LET WorkAcme ==
        [company |-> <<"A", "c", "m", "e">>,
         position |-> <<"E", "n", "g", "i", "n", "e", "e", "r">>,
         startDate |-> <<"2", "0", "2", "0">>,
         endDate |-> <<>>]
      WorkBeta ==
        [company |-> <<"B", "e", "t", "a">>,
         position |-> <<"D", "e", "v">>,
         startDate |-> <<"2", "0", "1", "8">>,
         endDate |-> <<"2", "0", "1", "9">>,
         summary |-> <<"P", "y", "t", "h", "o", "n">>]
      WorkIntern == [position |-> <<"I", "n", "t", "e", "r", "n">>]
      EducationMit ==
        [institution |-> <<"M", "I", "T">>, area |-> <<"C", "S">>]
      EducationCam == [institution |-> <<"C", "a", "m">>]
      SkillBackend ==
        [name |-> <<"B", "a", "c", "k", "e", "n", "d">>,
         keywords |-> << <<"P", "y", "t", "h", "o", "n">>, <<"G", "o">> >>]
      SkillWeb == [name |-> <<"W", "e", "b">>, level |-> <<"P", "r", "o">>]
      SkillUnnamed == [keywords |-> <<>>]
      LanguageEnglish ==
        [language |-> <<"E", "n", "g", "l", "i", "s", "h">>,
         fluency |-> <<"F", "l", "u", "e", "n", "t">>]
      LanguagePolish == [language |-> <<"P", "o", "l", "i", "s", "h">>]
      BasicsAnn ==
        [name |-> <<"A", "n", "n">>,
         summary |-> <<"P", "y", "t", "h", "o", "n", " ", "d", "e", "v">>]
      Absent == [given |-> FALSE, value |-> <<>>]
      Given(value) == [given |-> TRUE, value |-> value]
      DocumentOf(basics, work, education, skills, languages) ==
        LET section == [basics |-> basics, work |-> work,
                        education |-> education, skills |-> skills,
                        languages |-> languages]
        IN [f \in {g \in DOMAIN section : section[g].given} |->
              section[f].value]
  IN { DocumentOf(basics, work, education, skills, languages) :
         basics \in {Absent, Given(BasicsAnn)},
         work \in {Absent, Given(<<>>), Given(<<WorkAcme>>),
                   Given(<<WorkAcme, WorkBeta>>),
                   Given(<<WorkBeta, WorkAcme>>),
                   Given(<<WorkAcme, WorkAcme>>),
                   Given(<<WorkIntern, WorkAcme>>)},
         education \in {Absent, Given(<<>>),
                        Given(<<EducationMit, EducationCam>>)},
         skills \in {Absent, Given(<<SkillBackend, SkillWeb>>),
                     Given(<<SkillWeb, SkillBackend>>),
                     Given(<<SkillUnnamed, SkillWeb>>)},
         languages \in {Absent, Given(<<>>),
                        Given(<<LanguageEnglish, LanguagePolish>>)} }

\* tools/call get_resume {format: 'text'}
FormatCall ==
  ServerIssue("tools/call", "get_resume",
              WithArg("format", Str(<<"t", "e", "x", "t">>)))

\* tools/call search_resume {query}; Undefined is a call without query,
\* which searches for the empty string
SearchCall ==
  LET SearchQueries ==
        { Str(<<"P", "y", "t", "h", "o", "n">>),
          Str(<<"a", "c", "m", "e">>),
          Str(<<"e">>),
          Str(<<"z", "z", "z">>),
          Undefined }
  IN
  \E query \in SearchQueries :
    ServerIssue("tools/call", "search_resume", WithArg("query", query))

DocumentInit ==
  /\ cache \in RichDocuments
  /\ cacheTimestamp = 1000000
  /\ clock = 1000000
  /\ ticks = 0
  /\ envCacheTimeout = <<>>
  /\ requests = <<>>
  /\ issued = 0
  /\ eventSeq = 0
  /\ NoGateway

\* tools/call get_experience {company} and get_skills {category}: without
\* the argument, with the empty string, and with texts in either case
\* that some entries, all entries or only keywords contain
FilterCall ==
  LET Filters ==
        { Undefined, Str(<<>>), Str(<<"A", "C", "M", "E">>), Str(<<"e">>),
          Str(<<"w", "E", "B">>), Str(<<"p", "y", "t", "h", "o", "n">>) }
  IN \E filter \in Filters :
       \/ ServerIssue("tools/call", "get_experience",
                      WithArg("company", filter))
       \/ ServerIssue("tools/call", "get_skills",
                      WithArg("category", filter))

DocumentNext == FormatCall \/ SearchCall \/ FilterCall \/ ReadResource

DocumentSpec == DocumentInit /\ [][DocumentNext]_vars

(***************************************************************************)
(* ConnectionSpec: one WebSocket connection of the gateway, and its        *)
(* GET /api/providers route.  ws.on('message') calls its async listener    *)
(* for every message as it arrives; the listener runs up to its first      *)
(* pending await and goes on when that await settles.  `issued` counts the *)
(* messages received.                                                      *)
(***************************************************************************)
\* messages received in one run of ConnectionSpec
MaxWsMessages == 2

\* the JSON text of a value: an array, or an object with no enumerable
\* property of its own
JsonArray(items) == [kind |-> "array", items |-> items]

\* what JSON.stringify (and res.json) writes for value: a Promise has no
\* enumerable property of its own and is written as {}
ToJSON(value) ==
  IF "t" \in DOMAIN value /\ value.t = "promise"
  THEN [kind |-> "object", items |-> <<>>]
  ELSE JsonArray(value.list)

\* what the probes of the providers that ask their end-point can answer
ProbeOutcomes ==
  [{name \in ProviderNames : ProbesEndpoint(name)} -> ProbeAnswers]

\* LLMProviders.getAvailableProviders(): `for (const [name, provider] of
\* this.providers)`, the names, in the order of the Map, of the providers
\* whose isAvailable() gives true
getAvailableProviders(config, answers) ==
  [list |->
     SelectSeq([n \in 1..Len(providers) |-> providers[n].key],
               LAMBDA name :
                 isAvailable(name, config,
                             IF ProbesEndpoint(name) THEN answers[name]
                             ELSE NoAnswer))]

\* `llmProviders.getAvailableProviders()` written without await: the value
\* of the expression is the Promise the async method returns, which will
\* be fulfilled with the list
ProvidersExpression(config, answers) ==
  [t |-> "promise", value |-> getAvailableProviders(config, answers)]

\* a message of the connection that is the JSON text of an object
Frame(type) ==
  [valid |-> TRUE, type |-> type, message |-> Undefined, provider |-> "",
   tool |-> "", args |-> NoArgs]

Addressed(id, replies) ==
  [k \in 1..Len(replies) |->
     [to |-> id, via |-> replies[k].via, payload |-> replies[k].payload]]

\* handleMCPTool once mcpClient.callTool has settled with `called`
McpToolReplies(tool, called) ==
  IF called.status = "returned"
  THEN << [via |-> "ws",
           payload |-> [type |-> "mcp_response", tool |-> tool,
                        result |-> called.value]] >>
  ELSE << [via |-> "ws",
           payload |-> [type |-> "error",
                        error |-> <<"MCP tool error: ">>
                                  \o MessageOf(called.err)]] >>

\* the handler of message id
Handler(id, via, frame, pc, chat, req) ==
  [id |-> id, via |-> via, frame |-> frame, pc |-> pc, chat |-> chat,
   req |-> req]

\* no chat request
NoChat == [pc |-> "none", replies |-> <<>>]

\* the listener from its call to its first pending await: the handler, and
\* the messages it has sent by then
OnMessage(id, frame, answers) ==
  LET \* the catch of the listener
      ProcessingError(error) ==
        << [via |-> "ws",
            payload |-> [type |-> "error",
                         error |-> <<"Error processing message: ">>
                                   \o MessageOf(error)]] >>
      \* case 'get_providers': ws.send(JSON.stringify({type, providers}))
      ProvidersReply(config) ==
        << [via |-> "ws",
            payload |-> [type |-> "providers",
                         providers |-> ToJSON(ProvidersExpression(config,
                                                                  answers))]] >>
  IN
  IF ~frame.valid
  THEN [handler |-> Handler(id, "ws", frame, "done", NoChat, NoRequest),
        replies |-> ProcessingError([name |-> "SyntaxError",
                                     message |-> <<"Unexpected token">>])]
  ELSE CASE frame.type = "chat" ->
              LET chat == NewChat("ws", frame.message, frame.provider)
                  q == IF chat.plan.rule = 0 THEN NoRequest
                       ELSE Enter("tools/call", chat.plan.tool,
                                  chat.plan.args)
                  now == IF q.phase = "fetching" THEN [chat EXCEPT !.req = q]
                         ELSE AfterContext(chat, q)
              IN [handler |-> Handler(id, "ws", frame, now.pc, now, NoRequest),
                  replies |-> now.replies]
         [] frame.type = "mcp_tool" ->
              LET q == Enter("tools/call", frame.tool, frame.args) IN
              IF q.phase = "fetching"
              THEN [handler |-> Handler(id, "ws", frame, "tool", NoChat, q),
                    replies |-> <<>>]
              ELSE [handler |-> Handler(id, "ws", frame, "done", NoChat,
                                        Outcome(q)),
                    replies |-> McpToolReplies(frame.tool,
                                               callTool(frame.tool, q.out))]
         [] frame.type = "get_providers" ->
              [handler |-> Handler(id, "ws", frame, "done", NoChat, NoRequest),
               replies |-> ProvidersReply(llmConfig)]
         [] OTHER ->
              [handler |-> Handler(id, "ws", frame, "done", NoChat, NoRequest),
               replies |-> <<>>]

\* A message arrives on the connection: one of the messages clients
\* send, the first of which is text that is no JSON.
WsMessage ==
  LET Frames ==
        { [Frame("") EXCEPT !.valid = FALSE],
          [Frame("chat") EXCEPT
             !.message = Str(<<"T", "e", "l", "l", " ", "m", "e", " ", "a",
                               "b", "o", "u", "t", " ", "h", "i", "s", " ",
                               "s", "k", "i", "l", "l", "s">>),
             !.provider = "ollama"],
          [Frame("mcp_tool") EXCEPT !.tool = "get_skills"],
          Frame("get_providers"),
          Frame("ping") }
  IN
  \E frame \in Frames : \E answers \in ProbeOutcomes :
    LET on == OnMessage(issued + 1, frame, answers) IN
    /\ issued < MaxWsMessages
    /\ issued' = issued + 1
    /\ received' = Append(received, on.handler)
    /\ sent' = sent \o Addressed(issued + 1, on.replies)
    /\ UNCHANGED <<clientVars, cache, cacheTimestamp, clock, ticks,
                   envCacheTimeout, requests, eventSeq, gatewayVars>>

\* app.get('/api/providers'): res.json(llmProviders.getAvailableProviders())
HttpGetProviders ==
  \E answers \in ProbeOutcomes :
    /\ issued < MaxWsMessages
    /\ issued' = issued + 1
    /\ received' = Append(received,
                          Handler(issued + 1, "http", Frame("get_providers"),
                                  "done", NoChat, NoRequest))
    /\ sent' = Append(sent,
                      [to |-> issued + 1, via |-> "http",
                       payload |-> ToJSON(ProvidersExpression(llmConfig,
                                                              answers))])
    /\ UNCHANGED <<clientVars, cache, cacheTimestamp, clock, ticks,
                   envCacheTimeout, requests, eventSeq, gatewayVars>>

\* The remote read of the server's getResume() settles for the tool call
\* of handler k: of getResumeContext for a chat message, of handleMCPTool
\* for an mcp_tool message.
WsToolSettles ==
  \E k \in 1..Len(received) : \E resp \in GatewayResponses :
    LET h == received[k]
        q == IF h.pc = "context" THEN h.chat.req ELSE h.req
        m == GetResumeMiss(cache, cacheTimestamp, q.now, resp)
        chat == AfterContext(h.chat, Settled(q, resp))
        called == callTool(h.frame.tool, Settled(q, resp).out)
    IN /\ h.pc \in {"context", "tool"}
       /\ cache' = m.cache
       /\ cacheTimestamp' = m.cacheTimestamp
       /\ received' =
            [received EXCEPT
               ![k] = IF h.pc = "context"
                      THEN [h EXCEPT !.pc = chat.pc, !.chat = chat]
                      ELSE [h EXCEPT !.pc = "done",
                                     !.req = Outcome(Settled(q, resp))]]
       /\ sent' = sent \o Addressed(h.id,
                                     IF h.pc = "context" THEN chat.replies
                                     ELSE McpToolReplies(h.frame.tool, called))
       /\ UNCHANGED <<clientVars, clock, ticks, envCacheTimeout, requests,
                      issued, eventSeq, gatewayVars>>

\* handler k goes on with its llmProviders.chat call having moved to call
WsChatMoves(k, call) ==
  LET chat == AfterLlm(received[k].chat, call) IN
  /\ received' = [received EXCEPT ![k] = [@ EXCEPT !.pc = chat.pc,
                                                   !.chat = chat]]
  /\ sent' = sent \o Addressed(received[k].id, chat.replies)
  /\ UNCHANGED <<clientVars, serviceVars, eventSeq, gatewayVars>>

\* The probe of the provider of a chat message settles.
WsProbeSettles ==
  \E k \in 1..Len(received) :
    /\ received[k].pc = "probe"
    /\ \E answer \in ProbeAnswersOf(received[k].chat.llm) :
         WsChatMoves(k, LlmProbeSettled(received[k].chat.llm, llmConfig,
                                        answer, 0))

\* The upstream request of the provider of a chat message settles.
WsUpstreamSettles ==
  \E k \in 1..Len(received) :
    /\ received[k].pc = "chat"
    /\ \E answer \in UpstreamAnswers :
         WsChatMoves(k, LlmUpstreamSettled(received[k].chat.llm, answer, 0))

ConnectionNext ==
  \/ WsMessage
  \/ HttpGetProviders
  \/ WsToolSettles
  \/ WsProbeSettles
  \/ WsUpstreamSettles

\* the gateway has started, as in GatewaySpec
ConnectionSpec == GatewayInit /\ [][ConnectionNext]_vars

(***************************************************************************)
(* RegistrySpec: callers use every method of LLMProviders.  `calls` keeps  *)
(* the calls of getProvider, getModelsForProvider and                      *)
(* getAvailableProviders with what they gave back; the calls of chat are   *)
(* in `llmCalls` as in ProviderSpec.  getAvailableProviders is taken in    *)
(* one step: between its awaits no method writes anything it reads.        *)
(***************************************************************************)
\* calls of the methods of LLMProviders in one run of RegistrySpec
MaxRegistryCalls == 2

\* a plausible slip: asking for the models of an unknown provider enters
\* it in the Map with no models
GetModelsForProviderRegisters ==
  \E providerName \in ProviderNames \cup {"gpt4all"} :
    LET provider == MapGet(providers, providerName)
    IN /\ Len(calls) + Len(llmCalls) < MaxRegistryCalls
       /\ providers' =
            IF provider = Undefined
            THEN Append(providers,
                        [key |-> providerName,
                         value |-> [name |-> providerName, models |-> <<>>]])
            ELSE providers
       /\ calls' = Append(calls,
                          [op |-> "getModelsForProvider",
                           arg |-> providerName,
                           out |-> Returned(IF provider = Undefined THEN <<>>
                                            ELSE provider.models)])
       /\ UNCHANGED <<mcpClient, children, gateway, connectionVars,
                      serviceVars, eventSeq, llmConfig, llmCalls, chats>>

\* a plausible slip: the failure of a probe's request is not caught
GetAvailableProvidersRethrows ==
  \E answers \in ProbeOutcomes :
    /\ Len(calls) + Len(llmCalls) < MaxRegistryCalls
    /\ calls' = Append(calls,
                       [op |-> "getAvailableProviders", arg |-> answers,
                        out |-> IF \E name \in DOMAIN answers :
                                     answers[name].kind = "unreachable"
                                THEN Threw([name |-> "FetchError",
                                            message |-> <<"request failed">>])
                                ELSE Returned(getAvailableProviders(
                                                llmConfig, answers).list)])
    /\ UNCHANGED <<providers, mcpClient, children, gateway, connectionVars,
                   serviceVars, eventSeq, llmConfig, llmCalls, chats>>

\* A caller invokes llmProviders.getProvider(name).
GetProvider ==
  \E name \in ProviderNames \cup {"gpt4all"} :
    /\ Len(calls) + Len(llmCalls) < MaxRegistryCalls
    /\ calls' = Append(calls,
                       [op |-> "getProvider", arg |-> name,
                        out |-> Returned(MapGet(providers, name))])
    /\ UNCHANGED <<providers, mcpClient, children, gateway, connectionVars,
                   serviceVars, eventSeq, llmConfig, llmCalls, chats>>

\* A caller invokes llmProviders.getModelsForProvider(providerName):
\* `provider ? provider.models : []`.
GetModelsForProvider ==
  \E providerName \in ProviderNames \cup {"gpt4all"} :
    LET provider == MapGet(providers, providerName)
    IN /\ Len(calls) + Len(llmCalls) < MaxRegistryCalls
       /\ calls' = Append(calls,
                          [op |-> "getModelsForProvider",
                           arg |-> providerName,
                           out |-> Returned(IF provider = Undefined THEN <<>>
                                            ELSE provider.models)])
       /\ UNCHANGED <<providers, mcpClient, children, gateway, connectionVars,
                      serviceVars, eventSeq, llmConfig, llmCalls, chats>>

\* A caller invokes and awaits llmProviders.getAvailableProviders(); the
\* end-points of Ollama and LocalAI answer the probes with `answers`, and
\* a request that fails is caught inside isAvailable().
GetAvailableProviders ==
  \E answers \in ProbeOutcomes :
    /\ Len(calls) + Len(llmCalls) < MaxRegistryCalls
    /\ calls' = Append(calls,
                       [op |-> "getAvailableProviders", arg |-> answers,
                        out |-> Returned(getAvailableProviders(
                                           llmConfig, answers).list)])
    /\ UNCHANGED <<providers, mcpClient, children, gateway, connectionVars,
                   serviceVars, eventSeq, llmConfig, llmCalls, chats>>

\* the calls of chat count among the calls of the run
RegistryNext ==
  \/ (Len(calls) + Len(llmCalls) < MaxRegistryCalls /\ LlmChat)
  \/ ProbeSettles
  \/ UpstreamSettles
  \/ GetProvider
  \/ GetModelsForProvider
  \/ GetAvailableProviders

\* the registry has been constructed with the configuration of the
\* environment, as in ProviderSpec
RegistrySpec == ProviderInit /\ [][RegistryNext]_vars

(***************************************************************************)
(* ClientSpec: the MCP client of the gateway (MCPClient.connect and        *)
(* disconnect) and startServer().  `children` are the processes spawned by *)
(* connect(), `calls` the calls of connect() and disconnect() with the     *)
(* fields of the client when they were entered (`before`) and when they    *)
(* completed (`after`).  Whether the SDK's client.connect() and            *)
(* client.close() resolve or reject is the environment's choice.           *)
(***************************************************************************)
\* calls of connect() and disconnect() in one run of ClientSpec
MaxClientCalls == 3

\* the fields of the client
FieldsOf(client) ==
  [transport |-> client.transport, serverProcess |-> client.serverProcess]

\* `throw new Error(`Failed to connect to MCP server: ${...}`)` in the
\* catch of connect()
ConnectError(error) ==
  NewError(<<"Failed to connect to MCP server: ">> \o MessageOf(error))

\* `if (this.serverProcess) { this.serverProcess.kill();
\* this.serverProcess = null; }`
KillServerProcess(client, processes) ==
  IF client.serverProcess = Null
  THEN [client |-> client, children |-> processes]
  ELSE [client |-> [client EXCEPT !.serverProcess = Null],
        children |-> [processes EXCEPT
                        ![client.serverProcess.child].alive = FALSE]]

\* connect() up to its await: the child is spawned and kept in
\* serverProcess; without stdout or stdin the body throws and the catch
\* throws again, else the transport is made and client.connect() starts
ConnectBegins(by) ==
  \E piped \in BOOLEAN :
    LET k == Len(children) + 1
        spawned == [mcpClient EXCEPT !.serverProcess = [child |-> k]]
        call == [op |-> "connect", by |-> by, child |-> k,
                 before |-> FieldsOf(mcpClient)]
    IN /\ children' = Append(children, [alive |-> TRUE, piped |-> piped])
       /\ IF piped
          THEN /\ mcpClient' = [spawned EXCEPT !.transport = [child |-> k],
                                               !.client = "connecting"]
               /\ calls' = Append(calls,
                                  call @@ [pc |-> "connecting",
                                           out |-> Pending,
                                           after |-> FieldsOf(mcpClient)])
          ELSE /\ mcpClient' = spawned
               /\ calls' =
                    Append(calls,
                           call @@
                           [pc |-> "done",
                            out |-> Threw(ConnectError(NewError(
                                      <<"Failed to create server process stdio">>))),
                            after |-> FieldsOf(spawned)])

\* a plausible slip: the server listens before the client is connected
StartServerListensFirst ==
  /\ gateway.phase = "loaded"
  /\ Len(calls) < MaxClientCalls
  /\ ConnectBegins("startServer")
  /\ gateway' = [gateway EXCEPT !.phase = "binding"]
  /\ UNCHANGED <<providers, connectionVars, serviceVars, eventSeq, llmConfig,
                 llmCalls, chats>>

\* startServer(), the last statement of the module: `await
\* mcpClient.connect()`; a connect() that has thrown already takes the
\* catch, `process.exit(1)`
StartServer ==
  /\ gateway.phase = "loaded"
  /\ Len(calls) < MaxClientCalls
  /\ ConnectBegins("startServer")
  /\ gateway' = IF calls'[Len(calls')].pc = "done"
                THEN [gateway EXCEPT !.phase = "exited", !.exitCode = Num(1)]
                ELSE [gateway EXCEPT !.phase = "starting"]
  /\ UNCHANGED <<providers, connectionVars, serviceVars, eventSeq, llmConfig,
                 llmCalls, chats>>

\* Code of the process calls mcpClient.connect().
Connect ==
  /\ gateway.phase # "exited"
  /\ Len(calls) < MaxClientCalls
  /\ ConnectBegins("caller")
  /\ UNCHANGED <<providers, gateway, connectionVars, serviceVars, eventSeq,
                 llmConfig, llmCalls, chats>>

\* `await this.client.connect(this.transport)` of call c settles: connect()
\* returns, or its catch throws.  startServer() goes on with
\* server.listen(port, ...), or with process.exit(1) in its catch.
ConnectSettles ==
  \E c \in 1..Len(calls) : \E ok \in BOOLEAN :
    /\ gateway.phase # "exited"
    /\ calls[c].op = "connect" /\ calls[c].pc = "connecting"
    /\ mcpClient' = [mcpClient EXCEPT
                       !.client = IF ok THEN "connected" ELSE "failed"]
    /\ calls' = [calls EXCEPT
                   ![c] = [@ EXCEPT
                             !.pc = "done",
                             !.out = IF ok THEN Returned(Undefined)
                                     ELSE Threw(ConnectError(NewError(
                                            <<"Connection closed">>))),
                             !.after = FieldsOf(mcpClient)]]
    /\ gateway' = IF calls[c].by # "startServer" THEN gateway
                  ELSE IF ok THEN [gateway EXCEPT !.phase = "binding"]
                  ELSE [gateway EXCEPT !.phase = "exited",
                                       !.exitCode = Num(1)]
    /\ UNCHANGED <<providers, children, connectionVars, serviceVars, eventSeq,
                   llmConfig, llmCalls, chats>>

\* Code of the process calls mcpClient.disconnect(): with a transport,
\* client.close() starts; without one the call goes on to the server
\* process and returns.
Disconnect ==
  LET call == [op |-> "disconnect", by |-> "caller", child |-> 0,
               before |-> FieldsOf(mcpClient)]
      ended == KillServerProcess(mcpClient, children)
  IN /\ gateway.phase # "exited"
     /\ Len(calls) < MaxClientCalls
     /\ IF mcpClient.transport # Null
        THEN /\ calls' = Append(calls,
                                call @@ [pc |-> "closing", out |-> Pending,
                                         after |-> FieldsOf(mcpClient)])
             /\ UNCHANGED <<mcpClient, children>>
        ELSE /\ mcpClient' = ended.client
             /\ children' = ended.children
             /\ calls' = Append(calls,
                                call @@ [pc |-> "done",
                                         out |-> Returned(Undefined),
                                         after |-> FieldsOf(ended.client)])
     /\ UNCHANGED <<providers, gateway, connectionVars, serviceVars, eventSeq,
                    llmConfig, llmCalls, chats>>

\* `await this.client.close()` of call c settles: the transport is set to
\* null and the server process killed, or disconnect() throws what close()
\* threw.
CloseSettles ==
  \E c \in 1..Len(calls) : \E ok \in BOOLEAN :
    LET closed == [mcpClient EXCEPT !.transport = Null, !.client = "closed"]
        ended == KillServerProcess(closed, children)
    IN /\ gateway.phase # "exited"
       /\ calls[c].op = "disconnect" /\ calls[c].pc = "closing"
       /\ IF ok
          THEN /\ mcpClient' = ended.client
               /\ children' = ended.children
               /\ calls' = [calls EXCEPT
                              ![c] = [@ EXCEPT
                                        !.pc = "done",
                                        !.out = Returned(Undefined),
                                        !.after = FieldsOf(ended.client)]]
          ELSE /\ calls' = [calls EXCEPT
                              ![c] = [@ EXCEPT
                                        !.pc = "done",
                                        !.out = Threw(NewError(
                                                  <<"Not connected">>)),
                                        !.after = FieldsOf(mcpClient)]]
               /\ UNCHANGED <<mcpClient, children>>
       /\ UNCHANGED <<providers, gateway, connectionVars, serviceVars,
                      eventSeq, llmConfig, llmCalls, chats>>

\* server.listen(port, callback) completes.  When the port is bound the
\* callback runs: `llmProviders.getAvailableProviders().join(', ')` calls
\* join on a Promise, the TypeError is not caught and ends the process;
\* when the port cannot be bound the 'error' event has no listener and
\* ends the process as well.
Listening ==
  \E bound \in BOOLEAN :
    /\ gateway.phase = "binding"
    /\ gateway' = [phase |-> "exited", listened |-> bound,
                   exitCode |-> Num(1)]
    /\ UNCHANGED <<providers, calls, mcpClient, children, connectionVars,
                   serviceVars, eventSeq, llmConfig, llmCalls, chats>>

ClientNext ==
  \/ StartServer
  \/ Connect
  \/ ConnectSettles
  \/ Disconnect
  \/ CloseSettles
  \/ Listening

\* the module of the gateway has been loaded
ClientSpec == ProviderInit /\ [][ClientNext]_vars

(***************************************************************************)
(* Properties of ResumeService.getResume                                   *)
(***************************************************************************)
Req == 1..Len(requests)

\* request i went to the store and the store's answer was a failure
FetchFailed(i) == requests[i].response.kind \notin {"none", "document"}

\* request j was issued after request i had completed
Sequential(i, j) ==
  /\ requests[i].phase = "done"
  /\ requests[i].endSeq < requests[j].startSeq

\* C1: a getResume() call that finds a cache entry younger than the
\* time-to-live performs no remote fetch and returns the cached snapshot;
\* and from an empty cache, two sequential calls inside the time-to-live
\* window return the same data with at most one remote fetch in total.
C1_FreshEntryServedWithoutFetch ==
  /\ \A i \in Req :
       LET q == requests[i] IN
       (q.hadEntry /\ q.age < cacheTimeout) =>
         /\ q.fetches = 0
         /\ q.resume.status = "returned"
         /\ q.resume.value = q.before.cache
  /\ (/\ Len(requests) >= 2
      /\ Sequential(1, 2)
      /\ requests[1].resume.status = "returned"
      /\ requests[2].now - requests[1].now < cacheTimeout)
     => /\ requests[2].resume.status = "returned"
        /\ requests[2].resume.value = requests[1].resume.value
        /\ requests[1].fetches + requests[2].fetches <= 1

\* a second call, some time after the first and inside the window, was served
C1_Witness ==
  /\ Len(requests) >= 2
  /\ Sequential(1, 2)
  /\ requests[1].response.kind = "document"
  /\ requests[2].age > 0
  /\ requests[2].age < cacheTimeout
  /\ requests[2].phase = "done"

\* C2: a getResume() call issued once the entry's time-to-live has elapsed
\* performs exactly one remote fetch, and when the fetch succeeds the slot
\* holds exactly the fetched document and the call's timestamp.
C2_ExpiredEntryRefetchedAndReplaced ==
  \A i \in Req :
    LET q == requests[i] IN
    (q.hadEntry /\ q.age >= cacheTimeout) =>
      /\ q.fetches = 1
      /\ (q.phase = "done" /\ q.response.kind = "document") =>
           /\ q.after.cache = q.response.doc
           /\ q.after.cacheTimestamp = q.now
           /\ q.resume.status = "returned"
           /\ q.resume.value = q.response.doc

\* an expired entry was replaced by a different document
C2_Witness ==
  \E i \in Req :
    LET q == requests[i] IN
    /\ q.hadEntry /\ q.age >= cacheTimeout
    /\ q.phase = "done" /\ q.response.kind = "document"
    /\ q.before.cache # Null
    /\ q.before.cache # q.response.doc
    /\ q.before.cacheTimestamp < q.now

\* C3: a getResume() call that fails leaves the cached snapshot and the
\* cache timestamp exactly as they were.
C3_FailedCallLeavesSlot ==
  \A i \in Req :
    LET q == requests[i] IN
    (q.phase = "done" /\ q.resume.status = "threw") => q.after = q.before

\* a refetch failed while the slot held an entry
C3_Witness ==
  \E i \in Req :
    LET q == requests[i] IN
    /\ q.phase = "done" /\ q.resume.status = "threw"
    /\ q.before.cache # Null

\* C4: when the remote fetch fails getResume() fails, with or without an
\* entry in the slot; a snapshot that is returned from the slot is younger
\* than the time-to-live.
C4_FailHardNeverStale ==
  \A i \in Req :
    LET q == requests[i] IN
    q.phase = "done" =>
      /\ FetchFailed(i) => q.resume.status = "threw"
      /\ (q.resume.status = "returned" /\ q.response.kind # "document") =>
           (q.hadEntry /\ q.age < cacheTimeout)

\* the fetch failed while the slot held an expired entry
C4_Witness ==
  \E i \in Req :
    LET q == requests[i] IN
    /\ q.phase = "done" /\ FetchFailed(i)
    /\ q.hadEntry /\ q.age >= cacheTimeout
    /\ q.resume.status = "threw"

\* C5 (as claimed): a call made when the entry's age equals the
\* time-to-live is still a cache hit and performs no remote fetch.
C5_HitAtExactTimeout ==
  \A i \in Req :
    LET q == requests[i] IN
    (q.hadEntry /\ q.age = cacheTimeout) => (q.hit /\ q.fetches = 0)

\* C5 (amended): an entry is served exactly while its age is below the
\* time-to-live; at an age equal to the time-to-live the call is a miss and
\* performs a remote fetch.
C5_InvalidAtExactTimeout ==
  \A i \in Req :
    LET q == requests[i] IN
    q.hadEntry =>
      /\ q.hit <=> q.age < cacheTimeout
      /\ q.age = cacheTimeout => (~q.hit /\ q.fetches = 1)

\* a call met an entry whose age equals the time-to-live
C5_Witness ==
  \E i \in Req :
    requests[i].hadEntry /\ requests[i].age = cacheTimeout

\* C6: the time-to-live that decides expiry is the configured CACHE_TIMEOUT:
\* an entry younger than it is served, an entry older than it is refetched.
C6_ConfiguredTimeoutDecides ==
  \A i \in Req :
    LET q == requests[i] IN
    q.hadEntry =>
      /\ q.age < configCacheTimeout => q.hit
      /\ q.age > configCacheTimeout => ~q.hit

\* the class and the fixed head of the message of an error
KindOf(error) == <<error.name, Head(error.message)>>

Says(error, piece, detail) ==
  \E k \in 1..(Len(error.message) - 1) :
    error.message[k] = piece /\ error.message[k + 1] = detail

\* C8: a tools/call request whose name is none of the four registered
\* tools ends with the unknown-tool error, in every state of the server.
C8_UnknownToolReported ==
  \A i \in Req :
    LET q == requests[i] IN
    (q.kind = "tools/call" /\ q.phase = "done" /\ q.name \notin ToolNames) =>
      /\ q.out.status = "threw"
      /\ Says(q.out.err, "Unknown tool: ", q.name)

\* C9: a resources/read request whose identifier is none of the four
\* catalogued resources ends with the unknown-resource error, in every
\* state of the server.
C9_UnknownResourceReported ==
  \A i \in Req :
    LET q == requests[i] IN
    (q.kind = "resources/read" /\ q.phase = "done"
       /\ q.name \notin ResourceUris) =>
      /\ q.out.status = "threw"
      /\ Says(q.out.err, "Unknown resource: ", q.name)

\* C10: a tools/call request ends either with a result or with an Error
\* whose message is 'Tool execution failed: ' followed by the message of
\* the fault; a failure of getResume() and a fault raised by bad arguments
\* both end that way.
C10_ToolFaultsWrapped ==
  \A i \in Req :
    LET q == requests[i]
        fault == IF q.resume.status = "threw" THEN q.resume
                 ELSE CallToolSwitch(q.name, q.args, q.resume.value)
    IN
    (q.kind = "tools/call" /\ q.phase = "done") =>
      /\ q.out.status \in {"returned", "threw"}
      /\ q.out.status = "returned" =>
           (q.out.err = NoError /\ fault.status = "returned")
      /\ q.out.status = "threw" =>
           /\ KindOf(q.out.err) = <<"Error", "Tool execution failed: ">>
           /\ Tail(q.out.err.message) = fault.err.message
      /\ fault.status = "threw" => q.out.status = "threw"

\* a non-string company met a work entry that has a company
C10_Witness ==
  \E i \in Req :
    LET q == requests[i] IN
    /\ q.kind = "tools/call" /\ q.phase = "done"
    /\ q.name = "get_experience" /\ q.args.company = Num(123)
    /\ q.resume.status = "returned"
    /\ q.out.status = "threw"

\* the declared inputSchema of the tools: search_resume requires `query`,
\* and the format of get_resume is one of 'json' and 'text'
SchemaAccepts(name, args) ==
  /\ name = "search_resume" => args.query # Undefined
  /\ (name = "get_resume" /\ args.format # Undefined) =>
       args.format \in {Str(<<"j", "s", "o", "n">>), Str(<<"t", "e", "x", "t">>)}

\* C11: a tools/call request whose arguments do not fit the declared schema
\* of the tool (search_resume without query, get_resume with a format that
\* is neither 'json' nor 'text') is rejected with an error and the tool is
\* not executed.
C11_ArgumentsValidatedAgainstSchema ==
  \A i \in Req :
    LET q == requests[i] IN
    (q.kind = "tools/call" /\ q.phase = "done" /\ q.name \in ToolNames
       /\ ~SchemaAccepts(q.name, q.args)) =>
      q.out.status = "threw"

\* C12: get_experience with a company filter that matches no work entry,
\* or on a document without a work list, succeeds with the serialized
\* empty list.
C12_NoMatchIsEmptyListNotError ==
  \A i \in Req :
    LET q == requests[i]
        doc == q.resume.value
        nothingMatches ==
          /\ q.args.company.t = "string"
          /\ q.args.company.s # <<>>
          /\ \A k \in 1..Len(doc.work) :
               ~(/\ Has(doc.work[k], "company")
                 /\ includes(toLowerCase(doc.work[k].company),
                             toLowerCase(q.args.company.s)))
    IN
    (/\ q.kind = "tools/call" /\ q.phase = "done"
     /\ q.name = "get_experience"
     /\ q.resume.status = "returned"
     /\ (~Has(doc, "work") \/ nothingMatches)) =>
      /\ q.out.status = "returned"
      /\ q.out.value.content = << [type |-> "text", text |-> [json |-> <<>>]] >>

\* the filter 'zzz' met a document whose work entries are all of another
\* company
C12_Witness ==
  \E i \in Req :
    LET q == requests[i] IN
    /\ q.kind = "tools/call" /\ q.phase = "done"
    /\ q.name = "get_experience"
    /\ q.args.company = Str(<<"z", "z", "z">>)
    /\ q.resume.status = "returned"
    /\ Has(q.resume.value, "work")
    /\ q.out.status = "returned"

(***************************************************************************)
(* Properties of LLMProviders.chat                                         *)
(***************************************************************************)
Calls == 1..Len(llmCalls)

\* what the probe of call c found: the end-point answered with a success
\* status, or the provider's key is configured
ProbePassed(c) ==
  IF c.provider \in {"ollama", "localai"}
  THEN c.probe.kind = "response" /\ c.probe.ok
  ELSE IF c.provider = "openrouter" THEN llmConfig.openRouter # Undefined
  ELSE llmConfig.huggingFace # Undefined

\* C13: chat fails with the not-found error for a name that is not
\* registered, without probing, and with the not-available error for a
\* registered provider whose probe fails; in both cases the provider's chat
\* operation is not invoked.
C13_UnknownAndUnavailableProviders ==
  \A k \in Calls :
    LET c == llmCalls[k] IN
    /\ c.provider \notin ProviderNames =>
         /\ c.pc = "done"
         /\ c.out.status = "threw"
         /\ c.out.err.message = <<"Provider ", c.provider, " not found">>
         /\ c.probes = 0
         /\ c.delegated = 0
    /\ (c.provider \in ProviderNames /\ c.pc # "probe" /\ ~ProbePassed(c)) =>
         /\ c.pc = "done"
         /\ c.out.status = "threw"
         /\ c.out.err.message =
              <<"Provider ", c.provider, " is not available">>
         /\ c.probes = 1
         /\ c.delegated = 0

\* both failures happened in one run
C13_Witness ==
  \E i, j \in Calls :
    /\ llmCalls[i].provider \notin ProviderNames
    /\ llmCalls[i].out.status = "threw"
    /\ llmCalls[j].provider \in ProviderNames
    /\ llmCalls[j].pc = "done"
    /\ ~ProbePassed(llmCalls[j])
    /\ llmCalls[j].out.status = "threw"

\* C14: every chat call to a registered provider runs the provider's probe
\* itself and is delegated exactly when that probe succeeds, whatever
\* earlier calls to the same provider found.
C14_AvailabilityProbedOnEveryCall ==
  \A k \in Calls :
    LET c == llmCalls[k] IN
    (c.provider \in ProviderNames /\ c.pc # "probe") =>
      /\ c.probes = 1
      /\ (c.delegated = 1) <=> ProbePassed(c)

\* a call failed because the probe failed, and a later call to the same
\* provider was delegated
C14_Witness ==
  \E i, j \in Calls :
    /\ llmCalls[i].provider = llmCalls[j].provider
    /\ llmCalls[i].pc = "done"
    /\ llmCalls[i].delegated = 0
    /\ llmCalls[i].probes = 1
    /\ llmCalls[i].endSeq < llmCalls[j].startSeq
    /\ llmCalls[j].delegated = 1

\* C15: once the probe has passed, a response of the upstream with a
\* non-success status makes chat fail with '<provider> API error: ' and
\* the status text; chat returns only for a success response, and what it
\* returns is the generated text whenever there is one.
C15_UpstreamFailureIsProviderCallError ==
  \A k \in Calls :
    LET c == llmCalls[k] IN
    /\ (c.pc = "done" /\ c.delegated = 1 /\ c.upstream.kind = "response"
          /\ ~c.upstream.ok) =>
         /\ c.out.status = "threw"
         /\ c.out.err.message =
              <<ApiName(c.provider), " API error: ", c.upstream.statusText>>
    /\ c.out.status = "returned" =>
         /\ c.delegated = 1
         /\ c.upstream.kind = "response"
         /\ c.upstream.ok
         /\ c.upstream.text # <<>> => c.out.value = c.upstream.text

\* the upstream of a delegated call answered with a non-success status
C15_Witness ==
  \E k \in Calls :
    /\ llmCalls[k].pc = "done"
    /\ llmCalls[k].delegated = 1
    /\ llmCalls[k].upstream.kind = "response"
    /\ ~llmCalls[k].upstream.ok
    /\ llmCalls[k].out.status = "threw"

(***************************************************************************)
(* Properties of the gateway                                               *)
(***************************************************************************)
Chats == 1..Len(chats)

TextMessages == {message \in ChatMessages : message.t = "string"}

\* the substring tests on the message in lower case, one per rule
RuleTests ==
  [message \in TextMessages |->
     LET lower == toLowerCase(message.s) IN
     [experience |-> IncludesAny(lower, ExperienceWords),
      skills |-> IncludesAny(lower, SkillWords),
      search |-> IncludesAny(lower, SearchWords)]]

\* the words of the message in lower case and in order, without the
\* stop-words and the words of two characters or fewer
RemainingWords ==
  [message \in TextMessages |->
     SelectSeq(split(toLowerCase(message.s)),
               LAMBDA word : Len(word) > 2 /\ word \notin skipWords)]

AsText == Str(<<"t", "e", "x", "t">>)

\* chat request c has made its tool call
Called(c) == chats[c].message.t = "string" /\ chats[c].req.phase # "none"

\* C16 as stated: the first rule whose words occur in the message decides
\* the tool, 'search' or 'find' selecting search_resume.
C16_FirstMatchingRuleSelectsTool ==
  \A c \in Chats :
    Called(c) =>
      LET t == RuleTests[chats[c].message]
          q == chats[c].req
      IN /\ q.name = IF t.experience THEN "get_experience"
                     ELSE IF t.skills THEN "get_skills"
                     ELSE IF t.search THEN "search_resume"
                     ELSE "get_resume"
         /\ q.name = "get_resume" => q.args.format = AsText

\* C16: the first rule whose words occur in the message decides the tool;
\* 'search' or 'find' selects search_resume when a search term remains,
\* and get_resume as text is selected otherwise; 'Tell me about his
\* skills' selects get_skills.
C16_FirstMatchingRuleWithTermsSelectsTool ==
  \A c \in Chats :
    Called(c) =>
      LET t == RuleTests[chats[c].message]
          q == chats[c].req
      IN /\ q.name = IF t.experience THEN "get_experience"
                     ELSE IF t.skills THEN "get_skills"
                     ELSE IF t.search /\ RemainingWords[chats[c].message] # <<>>
                     THEN "search_resume"
                     ELSE "get_resume"
         /\ q.name = "get_resume" => q.args.format = AsText
         /\ chats[c].message =
              Str(<<"T", "e", "l", "l", " ", "m", "e", " ", "a", "b", "o", "u",
                    "t", " ", "h", "i", "s", " ", "s", "k", "i", "l", "l",
                    "s">>) =>
              q.name = "get_skills"

\* a message with words of the first three rules took the first
C16_Witness ==
  \E c \in Chats :
    /\ Called(c)
    /\ RuleTests[chats[c].message].experience
    /\ RuleTests[chats[c].message].skills
    /\ RuleTests[chats[c].message].search
    /\ chats[c].req.name = "get_experience"

\* C17: in the search branch the query is the remaining words joined by
\* single spaces ('find python projects' gives 'python projects'); when no
\* word remains, get_resume as text is called and search_resume is not.
C17_SearchQueryIsRemainingWords ==
  \A c \in Chats :
    LET t == RuleTests[chats[c].message]
        remaining == RemainingWords[chats[c].message]
        q == chats[c].req
    IN
    (Called(c) /\ ~t.experience /\ ~t.skills /\ t.search) =>
      /\ remaining # <<>> =>
           /\ q.name = "search_resume"
           /\ q.args.query = Str(join(remaining, <<" ">>))
      /\ remaining = <<>> =>
           /\ q.name = "get_resume"
           /\ q.args.format = AsText
      /\ chats[c].message = Str(<<"f", "i", "n", "d", " ", "p", "y", "t", "h", "o", "n",
                                " ", "p", "r", "o", "j", "e", "c", "t", "s">>) =>
           q.args.query = Str(<<"p", "y", "t", "h", "o", "n",
                                    " ", "p", "r", "o", "j", "e", "c", "t", "s">>)

\* 'find python projects' was sent as 'python projects'
C17_Witness ==
  \E c \in Chats :
    /\ Called(c)
    /\ chats[c].req.name = "search_resume"
    /\ chats[c].req.args.query = Str(<<"p", "y", "t", "h", "o", "n",
                                    " ", "p", "r", "o", "j", "e", "c", "t", "s">>)

\* the context getResumeContext has returned and the call of
\* llmProviders.chat made with it
Selected(c) == chats[c].pc # "context"

\* C18: when the tool call fails or the message cannot be classified,
\* getResumeContext returns 'Resume data is currently unavailable.' and
\* llmProviders.chat is called for the request with that context.
C18_PlaceholderOnContextFailure ==
  \A c \in Chats :
    LET chat == chats[c]
        placeholder == [head |-> "Resume data is currently unavailable.",
                        body |-> [chars |-> <<>>]]
    IN
    (/\ Selected(c)
     /\ (chat.message.t # "string" \/ chat.req.out.status = "threw")) =>
      /\ chat.got.status = "returned"
      /\ chat.got.value = placeholder
      /\ chat.llm.pc # "none"
      /\ chat.llm.provider = chat.provider
      /\ chat.llm.message = chat.message
      /\ chat.llm.context = placeholder

\* the server's handler failed and the chat went on to the provider
C18_Witness ==
  \E c \in Chats :
    /\ Selected(c)
    /\ chats[c].message.t = "string"
    /\ chats[c].req.out.status = "threw"
    /\ chats[c].llm.delegated = 1

\* C19: a chat request gets no reply while it is in progress and exactly
\* one when it is done; the reply holds response and context, or error,
\* and nothing else but the type; the context of a success reply is the
\* context llmProviders.chat was called with.
C19_ExactlyOneWholeReply ==
  \A c \in Chats :
    LET chat == chats[c]
        payload == chat.replies[1].payload
        fields == DOMAIN payload \ {"type"}
    IN
    /\ chat.pc # "done" => chat.replies = <<>>
    /\ chat.pc = "done" =>
         /\ Len(chat.replies) = 1
         /\ fields \in {{"response", "context"}, {"error"}}
         /\ fields = {"error"} => chat.llm.out.status = "threw"
         /\ fields = {"response", "context"} =>
              /\ chat.llm.out.status = "returned"
              /\ payload.response = chat.llm.out.value
              /\ payload.context = chat.llm.context

\* a chat request was answered with a response and a context of the
\* document
C19_Witness ==
  \E c \in Chats :
    /\ chats[c].pc = "done"
    /\ chats[c].llm.out.status = "returned"
    /\ chats[c].req.phase # "none"
    /\ chats[c].req.resume.status = "returned"
    /\ Len(chats[c].replies) = 1

\* C20: in the default branch the context handed to the provider holds
\* the text formatAsText gives for the document the server returned.
C20_DefaultContextHoldsResumeText ==
  \A c \in Chats :
    LET chat == chats[c] IN
    (/\ Selected(c) /\ Called(c)
     /\ chat.req.name = "get_resume"
     /\ chat.req.resume.status = "returned") =>
      /\ chat.llm.context.head = "Resume Summary:\n"
      /\ includes(chat.llm.context.body.chars,
                  formatAsText(chat.req.resume.value))

(***************************************************************************)
(* Properties of the order of validation and of overlapping calls          *)
(***************************************************************************)
\* C25: a tools/call request with an unregistered name and a
\* resources/read request with an unknown identifier trigger no remote
\* fetch and leave the cache slot as it was.
C25_NameValidatedBeforeStore ==
  \A i \in Req :
    LET q == requests[i] IN
    (\/ q.kind = "tools/call" /\ q.name \notin ToolNames
     \/ q.kind = "resources/read" /\ q.name \notin ResourceUris) =>
      /\ q.fetches = 0
      /\ q.phase = "done" => q.after = q.before

\* requests i and j both missed the cache and each was in progress while
\* the other was
Overlap(i, j) ==
  /\ i # j
  /\ requests[i].phase = "done" /\ requests[j].phase = "done"
  /\ ~requests[i].hit /\ ~requests[j].hit
  /\ requests[i].startSeq < requests[j].endSeq
  /\ requests[j].startSeq < requests[i].endSeq

\* what a successful call q writes: its snapshot and the time of its entry
Written(q) == [cache |-> q.resume.value, cacheTimestamp |-> q.now]

\* the slot holds what request i left, no request having completed since
Latest(i) == \A k \in Req : requests[k].endSeq <= requests[i].endSeq

\* C26: two getResume() calls that overlap on a cache miss each perform a
\* remote fetch of their own and each writes the slot when it succeeds;
\* the one that completes last leaves its snapshot and its timestamp in the
\* slot.
C26_OverlappingMissesBothFetchLastWriterWins ==
  \A i, j \in Req :
    (Overlap(i, j) /\ requests[i].endSeq < requests[j].endSeq) =>
      LET first == requests[i]
          last == requests[j]
      IN /\ first.fetches = 1 /\ last.fetches = 1
         /\ first.response.kind # "none" /\ last.response.kind # "none"
         /\ first.resume.status = "returned" => first.after = Written(first)
         /\ last.resume.status = "returned" =>
              /\ last.after = Written(last)
              /\ Latest(j) =>
                   /\ cache = last.resume.value
                   /\ cacheTimestamp = last.now

\* the call that entered first completed last, with another snapshot and an
\* earlier entry time than the call it overlapped, and the slot is its own
C26_Witness ==
  \E i, j \in Req :
    /\ Overlap(i, j) /\ requests[i].endSeq < requests[j].endSeq
    /\ requests[j].startSeq < requests[i].startSeq
    /\ requests[i].resume.status = "returned"
    /\ requests[j].resume.status = "returned"
    /\ requests[i].resume.value # requests[j].resume.value
    /\ requests[j].now < requests[i].now
    /\ Latest(j)
    /\ cache = requests[j].resume.value
    /\ cacheTimestamp = requests[j].now

\* request i completes in this step
Completes(i) ==
  /\ i \in Req
  /\ requests[i].phase = "fetching"
  /\ requests'[i].phase = "done"

\* a call that entered after request i has written the slot before request
\* i completed
Overtaken(i) ==
  \E j \in Req :
    /\ requests[j].phase = "done" /\ requests[j].resume.status = "returned"
    /\ ~requests[j].hit
    /\ requests[j].startSeq > requests[i].startSeq

\* C27 (as stated): the cache timestamp never decreases, and a call that
\* started earlier but completes later does not overwrite the slot written
\* by a call that started later.
C27_TimestampNeverDecreases ==
  [][/\ cacheTimestamp' >= cacheTimestamp
     /\ \A i \in Req :
          (Completes(i) /\ Overtaken(i)) =>
            (cache' = cache /\ cacheTimestamp' = cacheTimestamp)]_vars

\* C27 (amended): every successful cache-miss call overwrites the slot with
\* its own snapshot and the time of its own entry, whatever the slot held;
\* so the slot always holds the snapshot and the entry time of one and the
\* same completed call, the one that wrote last, and the timestamp is never
\* later than the clock.
C27_SlotIsLastWritersOwn ==
  /\ cacheTimestamp <= clock
  /\ cache = Null => cacheTimestamp = 0
  /\ \A i \in Req :
       LET q == requests[i] IN
       (q.phase = "done" /\ ~q.hit /\ q.resume.status = "returned") =>
         /\ q.after = Written(q)
         /\ (\A k \in Req :
               (requests[k].phase = "done" /\ ~requests[k].hit
                  /\ requests[k].resume.status = "returned")
                 => requests[k].endSeq <= q.endSeq) =>
              (cache = q.resume.value /\ cacheTimestamp = q.now)

\* a call that entered earlier completed after a later call had written the
\* slot, and moved the timestamp back
C27_Witness ==
  \E i, j \in Req :
    /\ Overlap(i, j)
    /\ requests[i].startSeq < requests[j].startSeq
    /\ requests[j].endSeq < requests[i].endSeq
    /\ requests[i].resume.status = "returned"
    /\ requests[j].resume.status = "returned"
    /\ requests[i].before.cacheTimestamp = requests[j].now
    /\ requests[i].after.cacheTimestamp < requests[i].before.cacheTimestamp
    /\ cacheTimestamp = requests[i].now

(***************************************************************************)
(* Properties of the gateway's remote calls                                *)
(***************************************************************************)
\* how far the handling of a chat request has come
Stage(pc) ==
  CASE pc = "context" -> 1 [] pc = "probe" -> 2 [] pc = "chat" -> 3
    [] OTHER -> 4

\* C28: no remote call is made a second time.  While a chat request waits
\* for its context, the server's getResume() has one remote read in
\* flight; every event of a chat request moves it one stage on (context,
\* probe, provider chat, done), so the tool call, the probe and the
\* provider's chat are each made at most once; a failed tool call gives the
\* placeholder and a failed provider call gives the error reply, at once.
C28_NoRemoteCallIsRetried ==
  /\ [](\A c \in Chats :
          LET chat == chats[c] IN
          /\ chat.pc = "context" =>
               /\ chat.req.phase = "fetching"
               /\ chat.req.fetches = 1
               /\ chat.req.response.kind = "none"
          /\ chat.llm.probes <= 1 /\ chat.llm.delegated <= 1
          /\ (chat.pc # "context" /\ chat.called.status = "threw") =>
               (chat.got = Returned(Placeholder)
                  /\ chat.llm.context = Placeholder)
          /\ (chat.llm.pc = "done" /\ chat.llm.out.status = "threw") =>
               /\ chat.pc = "done"
               /\ Len(chat.replies) = 1
               /\ "error" \in DOMAIN chat.replies[1].payload)
  /\ [][\A c \in Chats : \A d \in DOMAIN chats' :
          (chats'[d].id = chats[c].id /\ chats'[d] # chats[c]) =>
            /\ Stage(chats'[d].pc) > Stage(chats[c].pc)
            /\ chats[c].pc # "context" => chats'[d].req = chats[c].req
            /\ chats[c].pc \notin {"context", "probe"} =>
                 chats'[d].llm.probe = chats[c].llm.probe]_vars

\* a chat request whose tool call failed on an unreachable store went on
\* with the placeholder, and its provider call failed upstream: one read of
\* the store, one probe, one upstream request, one error reply
C28_Witness ==
  \E c \in Chats :
    LET chat == chats[c] IN
    /\ chat.pc = "done"
    /\ chat.req.phase = "done" /\ chat.req.resume.status = "threw"
    /\ chat.called.status = "threw"
    /\ chat.llm.context = Placeholder
    /\ chat.llm.probes = 1 /\ chat.llm.delegated = 1
    /\ chat.llm.upstream.kind = "unreachable"
    /\ chat.llm.out.status = "threw"
    /\ Len(chat.replies) = 1

(***************************************************************************)
(* Properties of formatAsText and searchResume                             *)
(***************************************************************************)
\* request i is a completed get_resume call with format text
Formatted(i) ==
  /\ requests[i].kind = "tools/call" /\ requests[i].phase = "done"
  /\ requests[i].name = "get_resume"
  /\ requests[i].args.format = Str(<<"t", "e", "x", "t">>)
  /\ requests[i].out.status = "returned"

\* the text of a tool result
TextOf(q) == q.out.value.content[1].text

SectionFields == <<"work", "education", "skills", "languages">>

SectionHeaders == <<"WORK EXPERIENCE:", "EDUCATION:", "SKILLS:", "LANGUAGES:">>

\* the places of a header in a text
HeaderAt(text, header) == {k \in 1..Len(text) : text[k] = header}

\* the first place at or after from where line stands in text; 0 when there
\* is none
FirstAt(text, line, from) ==
  LET places == {k \in from..(Len(text) - Len(line) + 1) :
                   SubSeq(text, k, k + Len(line) - 1) = line}
  IN IF places = {} THEN 0
     ELSE CHOOSE k \in places : \A j \in places : k <= j

\* the lines stand in text one after the other, from `from` up to limit
RECURSIVE InOrder(_, _, _, _)
InOrder(text, lines, from, limit) ==
  \/ lines = <<>>
  \/ LET at == FirstAt(text, Head(lines), from) IN
     /\ at > 0
     /\ at + Len(Head(lines)) - 1 <= limit
     /\ InOrder(text, Tail(lines), at + 1, limit)

\* the line an entry of a section opens with, at the start of a line
EntryLine(f, entry) ==
  <<"\n">> \o
  CASE f = "work" ->
         <<"\n">> \o OrElse(entry, "company", <<"Company">>) \o <<" - ">>
           \o OrElse(entry, "position", <<"Position">>)
    [] f = "education" ->
         <<"\n">> \o OrElse(entry, "institution", <<"Institution">>)
    [] f = "skills" -> OrElse(entry, "name", <<"Skill">>)
    [] OTHER -> OrElse(entry, "language", <<"Language">>) \o <<": ">>

\* the last place of section n in text: just before the next header
SectionEnd(text, n) ==
  LET later == UNION {HeaderAt(text, SectionHeaders[m]) : m \in (n + 1)..4}
  IN IF later = {} THEN Len(text)
     ELSE (CHOOSE k \in later : \A j \in later : k <= j) - 1

\* C23: formatAsText puts the identity block first and then the headers
\* WORK EXPERIENCE, EDUCATION, SKILLS, LANGUAGES in that order; a header is
\* there exactly when its list has entries; the entries of a section stand
\* inside it in the order of the list; and a work entry with a start date
\* and no end date has '<start> - Present' on the line after
\* '<company> - <position>'.
C23_SectionsInFixedOrderEntriesInSourceOrder ==
  \A i \in Req :
    Formatted(i) =>
      LET doc == requests[i].resume.value
          text == TextOf(requests[i])
          at(n) == HeaderAt(text, SectionHeaders[n])
          name == IF Has(doc, "basics")
                  THEN OrElse(doc.basics, "name", <<"Name not available">>)
                  ELSE <<>>
      IN /\ SubSeq(text, 1, Len(name)) = name
         /\ \A n \in 1..4 :
              LET list == ListOf(doc, SectionFields[n]) IN
              /\ Cardinality(at(n)) = IF Len(list) > 0 THEN 1 ELSE 0
              /\ \A k \in at(n) :
                   /\ k > Len(name)
                   /\ \A m \in (n + 1)..4 : \A j \in at(m) : k < j
                   /\ InOrder(text,
                              [e \in 1..Len(list) |->
                                 EntryLine(SectionFields[n], list[e])],
                              k, SectionEnd(text, n))
         /\ \A e \in 1..Len(ListOf(doc, "work")) :
              LET job == doc.work[e] IN
              (Present(job, "startDate") /\ ~Present(job, "endDate")) =>
                includes(text, EntryLine("work", job) \o <<"\n">>
                                 \o job.startDate \o <<" - ", "Present">>)
         /\ (\E e \in 1..Len(ListOf(doc, "work")) :
               /\ Has(doc.work[e], "company")
               /\ doc.work[e].company = <<"A", "c", "m", "e">>
               /\ doc.work[e].endDate = <<>>) =>
              includes(text, <<"A", "c", "m", "e", " - ", "E", "n", "g", "i",
                               "n", "e", "e", "r", "\n", "2", "0", "2", "0",
                               " - ", "Present">>)

\* a document without identity block, with the work entries Beta and Acme
\* in that order, an empty education list, skills and no languages was
\* formatted
C23_Witness ==
  \E i \in Req :
    /\ Formatted(i)
    /\ LET doc == requests[i].resume.value IN
       /\ DOMAIN doc = {"work", "education", "skills"}
       /\ Len(doc.work) = 2
       /\ Has(doc.work[1], "company")
       /\ doc.work[1].company = <<"B", "e", "t", "a">>
       /\ doc.work[2].company = <<"A", "c", "m", "e">>
       /\ doc.education = <<>>
       /\ Has(doc.skills[1], "name")
       /\ doc.skills[1].name = <<"W", "e", "b">>
    /\ HeaderAt(TextOf(requests[i]), "EDUCATION:") = {}
    /\ includes(TextOf(requests[i]), <<"2", "0", "2", "0", " - ", "Present">>)

\* q is a completed search_resume call
IsSearch(q) ==
  /\ q.kind = "tools/call" /\ q.phase = "done"
  /\ q.name = "search_resume"
  /\ q.out.status = "returned"

\* the place of a section in the traversal
TraversalRank(section) ==
  CASE section = "summary" -> 1 [] section = "work" -> 2 [] OTHER -> 3

\* one of the fields of entity holds term, letter case aside
SomeFieldHolds(entity, fields, term) ==
  \E f \in fields : Has(entity, f) /\ includes(toLowerCase(entity[f]), term)

\* C22: the list searchResume returns follows the traversal (the summary
\* match, then the work entries by ascending index, then the skill groups
\* by ascending index); a work or skill match carries the index, counted
\* from 0, of its entry in the source list; a targeted field of every
\* match holds the lower-cased query, letter case aside; and asking the
\* same query again of the unchanged document gives the same list.
C22_SearchFollowsTraversalOrder ==
  /\ [](\A i \in Req :
          IsSearch(requests[i]) =>
            LET doc == requests[i].resume.value
                query == requests[i].args.query
                term == IF query.t = "string" THEN toLowerCase(query.s)
                        ELSE <<>>
                results == TextOf(requests[i]).json
            IN /\ \A n \in 1..Len(results) :
                    LET r == results[n] IN
                    CASE r.section = "summary" ->
                           /\ n = 1
                           /\ ~Has(r, "index")
                           /\ Has(doc, "basics") /\ Has(doc.basics, "summary")
                           /\ r.content = doc.basics.summary
                           /\ includes(toLowerCase(r.content), term)
                      [] r.section = "work" ->
                           /\ r.index \in 0..(Len(ListOf(doc, "work")) - 1)
                           /\ r.content = doc.work[r.index + 1]
                           /\ SomeFieldHolds(r.content,
                                             {"company", "position", "summary"},
                                             term)
                      [] r.section = "skills" ->
                           /\ r.index \in 0..(Len(ListOf(doc, "skills")) - 1)
                           /\ r.content = doc.skills[r.index + 1]
                           /\ \/ SomeFieldHolds(r.content, {"name"}, term)
                              \/ /\ Has(r.content, "keywords")
                                 /\ \E k \in 1..Len(r.content.keywords) :
                                      includes(toLowerCase(r.content.keywords[k]),
                                               term)
                      [] OTHER -> FALSE
               /\ \A n \in 1..(Len(results) - 1) :
                    \/ TraversalRank(results[n].section)
                         < TraversalRank(results[n + 1].section)
                    \/ /\ results[n].section = results[n + 1].section
                       /\ results[n].section # "summary"
                       /\ results[n].index < results[n + 1].index)
  /\ [][\A i \in Req : \A j \in DOMAIN requests' :
          (/\ IsSearch(requests[i]) /\ IsSearch(requests'[j])
           /\ requests'[j].args = requests[i].args
           /\ requests'[j].resume.value = requests[i].resume.value) =>
            requests'[j].out = requests[i].out]_vars

\* 'Python' was searched a second time in a document whose summary, second
\* work entry and second skill group hold it: three matches, in that order,
\* the last two with index 1
C22_Witness ==
  \E i \in Req :
    LET q == requests[i] IN
    /\ IsSearch(q)
    /\ issued = 2 /\ q.hit
    /\ q.args.query = Str(<<"P", "y", "t", "h", "o", "n">>)
    /\ Len(TextOf(q).json) = 3
    /\ TextOf(q).json[1].section = "summary"
    /\ TextOf(q).json[2].section = "work" /\ TextOf(q).json[2].index = 1
    /\ TextOf(q).json[2].content.company = <<"B", "e", "t", "a">>
    /\ TextOf(q).json[3].section = "skills" /\ TextOf(q).json[3].index = 1
    /\ TextOf(q).json[3].content.name = <<"B", "a", "c", "k", "e", "n", "d">>

(***************************************************************************)
(* Properties of the catalogues                                            *)
(***************************************************************************)
\* the entry of a catalogue (a list of records) whose field f is v
Entry(list, f, v) == list[CHOOSE k \in 1..Len(list) : list[k][f] = v]

Listed(list, f) == {list[k][f] : k \in 1..Len(list)}

\* every argument given is a string, as all the schemas declare
AllStrings(args) ==
  \A f \in DOMAIN args : args[f].t \in {"undefined", "string"}

\* C24: resources/list always returns the four identifiers resume://cv,
\* resume://summary, resume://experience and resume://skills, and
\* tools/list the four names get_resume, get_experience, get_skills and
\* search_resume; a resources/read of a listed identifier is never refused
\* as unknown and, the document being in hand, returns contents with the
\* content type the catalogue declares for it; a tools/call of a listed
\* name is never refused as unknown and, with arguments its schema accepts
\* and the document in hand, returns a result.
C24_CataloguesFixedAndHandled ==
  LET resources == ListResourcesHandler.value.resources
      tools == ListToolsHandler.value.tools
  IN \A i \in Req :
       LET q == requests[i] IN
       q.phase = "done" =>
         /\ q.kind = "resources/list" =>
              /\ q.out.status = "returned"
              /\ Len(q.out.value.resources) = 4
              /\ Listed(q.out.value.resources, "uri") =
                   {"resume://cv", "resume://summary", "resume://experience",
                    "resume://skills"}
              /\ q.fetches = 0
         /\ q.kind = "tools/list" =>
              /\ q.out.status = "returned"
              /\ Len(q.out.value.tools) = 4
              /\ Listed(q.out.value.tools, "name") =
                   {"get_resume", "get_experience", "get_skills",
                    "search_resume"}
              /\ q.fetches = 0
         /\ (q.kind = "resources/read"
               /\ q.name \in Listed(resources, "uri")) =>
              /\ ~(q.out.status = "threw"
                     /\ Says(q.out.err, "Unknown resource: ", q.name))
              /\ q.resume.status = "returned" =>
                   /\ q.out.status = "returned"
                   /\ Len(q.out.value.contents) = 1
                   /\ q.out.value.contents[1].uri = q.name
                   /\ q.out.value.contents[1].mimeType =
                        Entry(resources, "uri", q.name).mimeType
         /\ (q.kind = "tools/call" /\ q.name \in Listed(tools, "name")) =>
              /\ ~(q.out.status = "threw"
                     /\ Says(q.out.err, "Unknown tool: ", q.name))
              /\ (q.resume.status = "returned"
                    /\ SchemaAccepts(q.name, q.args) /\ AllStrings(q.args)) =>
                   q.out.status = "returned"

\* the summary, listed as text/plain, was read and came back as text/plain
C24_Witness ==
  \E i \in Req :
    LET q == requests[i] IN
    /\ q.kind = "resources/read" /\ q.phase = "done"
    /\ q.name = "resume://summary"
    /\ q.out.status = "returned"
    /\ q.out.value.contents[1].mimeType = "text/plain"
    /\ Entry(ListResourcesHandler.value.resources, "uri",
             "resume://summary").mimeType = "text/plain"

(***************************************************************************)
(* Properties of the gateway's connection                                  *)
(***************************************************************************)
Received == 1..Len(received)

\* the messages sent in answer to message k, in the order of sending
RepliesTo(k) == SelectSeq(sent, LAMBDA r : r.to = k)

\* C21: the answer to a get_providers message and to GET /api/providers is
\* the list of the names of the registered providers whose probe succeeds,
\* for the answers the probes get.
C21_ProvidersReplyListsAvailableNames ==
  \A n \in 1..Len(sent) :
    LET reply == sent[n]
        listed == IF reply.via = "ws" THEN reply.payload.providers
                  ELSE reply.payload
    IN received[reply.to].frame.type = "get_providers" =>
         \E answers \in ProbeOutcomes :
           listed = JsonArray(getAvailableProviders(llmConfig, answers).list)

\* C29: on the connection the handling of a message starts only when the
\* reply to the message before it has been sent, so that at most the
\* message received last is in progress and the replies leave in the order
\* of arrival.
C29_OneMessageAtATimePerConnection ==
  /\ \A k \in Received :
       (received[k].via = "ws" /\ received[k].pc # "done") =>
         \A j \in Received : received[j].via = "ws" => j <= k
  /\ \A m, n \in 1..Len(sent) :
       (m < n /\ sent[m].via = "ws" /\ sent[n].via = "ws") =>
         sent[m].to <= sent[n].to

\* the type of the message that answers a message of each type
AnswerTypes(frame) ==
  IF ~frame.valid THEN {"error"}
  ELSE CASE frame.type = "chat" -> {"chat_response", "error"}
         [] frame.type = "mcp_tool" -> {"mcp_response", "error"}
         [] frame.type = "get_providers" -> {"providers", "error"}
         [] OTHER -> {"error"}

\* C30: every message received on the connection is answered by exactly
\* one message: none while its handler runs, one when it has ended; that
\* message is the response or an error for chat, mcp_tool and
\* get_providers, and an error for text that is no JSON and for any other
\* type.
C30_EveryMessageAnsweredOnce ==
  \A k \in Received :
    LET h == received[k] IN
    h.via = "ws" =>
      /\ h.pc # "done" => Len(RepliesTo(k)) = 0
      /\ h.pc = "done" =>
           /\ Len(RepliesTo(k)) = 1
           /\ RepliesTo(k)[1].payload.type \in AnswerTypes(h.frame)

(***************************************************************************)
(* Frame conditions of the server, and the order of what it derives        *)
(***************************************************************************)
\* a is b with some of its entries left out, the others in b's order
RECURSIVE IsSubsequence(_, _)
IsSubsequence(a, b) ==
  IF a = <<>> THEN TRUE
  ELSE IF b = <<>> THEN FALSE
  ELSE IF Head(a) = Head(b) THEN IsSubsequence(Tail(a), Tail(b))
  ELSE IsSubsequence(a, Tail(b))

\* the getResume() call of request q missed the cache and got the document
Refetched(q) == q.phase = "done" /\ ~q.hit /\ q.resume.status = "returned"

\* the entries of one section among the results of a search
Found(results, section) ==
  LET of == SelectSeq(results, LAMBDA r : r.section = section)
  IN [k \in 1..Len(of) |-> of[k].content]

\* what a successful request derived from the lists of the document is in
\* the order of the document
DerivedInSourceOrder(q) ==
  LET doc == q.resume.value
      work == ListOf(doc, "work")
      skills == ListOf(doc, "skills")
  IN CASE q.kind = "tools/call" /\ q.name = "get_experience" ->
            IsSubsequence(q.out.value.content[1].text.json, work)
       [] q.kind = "tools/call" /\ q.name = "get_skills" ->
            IsSubsequence(q.out.value.content[1].text.json, skills)
       [] q.kind = "tools/call" /\ q.name = "search_resume" ->
            /\ IsSubsequence(Found(q.out.value.content[1].text.json, "work"),
                             work)
            /\ IsSubsequence(Found(q.out.value.content[1].text.json,
                                   "skills"), skills)
       [] q.kind = "resources/read" /\ q.name = "resume://experience" ->
            q.out.value.contents[1].text.json = work
       [] q.kind = "resources/read" /\ q.name = "resume://skills" ->
            q.out.value.contents[1].text.json = skills
       [] OTHER -> TRUE

\* C31: no resources/read or tools/call request, with the formatting, the
\* filtering and the search it does, changes the cached snapshot or the
\* cache timestamp; the slot changes only in the step in which a getResume()
\* call that missed the cache gets the document, and then to that document
\* and that call's time; and the lists a request returns are the
\* document's lists, whole or with entries left out, in source order.
C31_SlotChangesOnlyByRefetchResultsInSourceOrder ==
  /\ [](\A i \in Req :
          LET q == requests[i] IN
          /\ (q.phase = "done" /\ ~Refetched(q)) => q.after = q.before
          /\ Refetched(q) =>
               q.after = [cache |-> q.resume.value, cacheTimestamp |-> q.now]
          /\ (q.phase = "done" /\ q.out.status = "returned") =>
               DerivedInSourceOrder(q))
  /\ [][(cache' # cache \/ cacheTimestamp' # cacheTimestamp) =>
          \E i \in 1..Len(requests') :
            LET q == requests'[i] IN
            /\ Refetched(q)
            /\ q.endSeq = eventSeq'
            /\ cache' = q.resume.value
            /\ cacheTimestamp' = q.now]_vars

\* get_experience without a filter was answered from the slot, with both
\* work entries of the document a refetch had stored, and the slot is as
\* the request found it
C31_Witness ==
  \E i \in Req :
    LET q == requests[i] IN
    /\ q.kind = "tools/call" /\ q.name = "get_experience"
    /\ q.phase = "done" /\ q.hit
    /\ q.out.status = "returned"
    /\ Len(q.out.value.content[1].text.json) = 2
    /\ cacheTimestamp > 0
    /\ cache = q.before.cache /\ cacheTimestamp = q.before.cacheTimestamp

\* a request for one of the two catalogues
IsList(q) == q.kind \in {"resources/list", "tools/list"}

\* C32: resources/list and tools/list are answered with the fixed
\* catalogue whatever the state: the handler does not call getResume(), so
\* no cache check is made and no remote read starts, the cache slot stays
\* as it is, and the answer is the same with an empty slot and an
\* unreachable store.
C32_CataloguesDependOnNoState ==
  /\ [](\A i \in Req :
          LET q == requests[i] IN
          IsList(q) =>
            /\ q.phase = "done"
            /\ q.out = IF q.kind = "resources/list" THEN ListResourcesHandler
                       ELSE ListToolsHandler
            /\ q.resume = Pending /\ ~q.hit /\ q.fetches = 0
            /\ q.response.kind = "none")
  /\ [][(\E i \in 1..Len(requests') :
           IsList(requests'[i]) /\ requests'[i].startSeq = eventSeq') =>
          /\ UNCHANGED <<cache, cacheTimestamp>>
          /\ \A i \in 1..Len(requests') :
               requests'[i].phase = "fetching" =>
                 \E j \in Req : requests[j] = requests'[i]]_vars

\* a catalogue was listed right after a request had failed on the
\* unreachable store, the slot being still empty
C32_Witness ==
  \E i \in Req :
    LET q == requests[i] IN
    /\ IsList(q) /\ q.out.status = "returned"
    /\ cache = Null
    /\ issued = 2 /\ eventSeq = 3

(***************************************************************************)
(* Properties of the filters of get_experience and get_skills               *)
(***************************************************************************)
\* request q is a completed call of tool name that got the document
Ran(q, name) ==
  /\ q.kind = "tools/call" /\ q.name = name
  /\ q.phase = "done" /\ q.resume.status = "returned"

\* entry has field f and its value contains the filter, letter case aside
Contains(entry, f, filter) ==
  /\ Has(entry, f)
  /\ includes(toLowerCase(entry[f]), toLowerCase(filter))

\* kept is exactly the entries of list whose field f contains the filter,
\* in the order of list
KeepsExactly(kept, list, f, filter) ==
  /\ IsSubsequence(kept, list)
  /\ \A k \in 1..Len(kept) : Contains(kept[k], f, filter)
  /\ Len(kept) = Cardinality({k \in 1..Len(list) :
                                Contains(list[k], f, filter)})

\* C34: get_experience {company} returns exactly the work entries whose
\* company contains the filter, letter case aside, in source order, and so
\* none of the entries without a company; get_skills {category} returns
\* exactly the skill groups whose name contains the filter, whatever their
\* keywords; without the argument, or with the empty string, the whole
\* list is returned.
C34_FiltersKeepExactlyTheMatchingEntries ==
  \A i \in Req :
    LET q == requests[i]
        doc == q.resume.value
        Filtered(list, f, arg) ==
          /\ q.out.status = "returned"
          /\ Len(q.out.value.content) = 1
          /\ LET kept == q.out.value.content[1].text.json IN
             IF arg = Undefined \/ arg = Str(<<>>) THEN kept = list
             ELSE KeepsExactly(kept, list, f, arg.s)
    IN /\ Ran(q, "get_experience") =>
            Filtered(ListOf(doc, "work"), "company", q.args.company)
       /\ Ran(q, "get_skills") =>
            Filtered(ListOf(doc, "skills"), "name", q.args.category)

\* the filter 'ACME' kept the one work entry of Acme and left out the
\* entry without a company that comes before it
C34_Witness ==
  \E i \in Req :
    LET q == requests[i] IN
    /\ Ran(q, "get_experience")
    /\ q.args.company = Str(<<"A", "C", "M", "E">>)
    /\ Len(ListOf(q.resume.value, "work")) = 2
    /\ ~Has(q.resume.value.work[1], "company")
    /\ Len(q.out.value.content[1].text.json) = 1
    /\ q.out.value.content[1].text.json[1].company = <<"A", "c", "m", "e">>

(***************************************************************************)
(* Properties of the results of tools/call and resources/read              *)
(***************************************************************************)
\* C35: a tools/call request that succeeds returns a content list of
\* exactly one item, of type 'text', whose text is a serialization: the
\* text rendering of the document for get_resume with format 'text', the
\* JSON text of the whole document for get_resume without format or with
\* any other format, and a JSON text for the other tools.
C35_OneTextItemJsonUnlessFormatText ==
  \A i \in Req :
    LET q == requests[i]
        doc == q.resume.value
    IN (q.kind = "tools/call" /\ q.phase = "done"
          /\ q.out.status = "returned") =>
         /\ DOMAIN q.out.value = {"content"}
         /\ Len(q.out.value.content) = 1
         /\ q.out.value.content[1].type = "text"
         /\ IF q.name = "get_resume" /\ q.args.format = AsText
            THEN TextOf(q) = formatAsText(doc)
            ELSE DOMAIN TextOf(q) = {"json"}
         /\ (q.name = "get_resume" /\ q.args.format # AsText) =>
              TextOf(q).json = doc

\* get_resume with format 'xml' returned the JSON text of the document
C35_Witness ==
  \E i \in Req :
    LET q == requests[i] IN
    /\ q.kind = "tools/call" /\ q.name = "get_resume" /\ q.phase = "done"
    /\ q.args.format = Str(<<"x", "m", "l">>)
    /\ q.out.status = "returned"
    /\ TextOf(q) = [json |-> q.resume.value]
    /\ Has(q.resume.value, "work")

\* C36: a resources/read request for a listed resource succeeds on every
\* document, whatever sections it lacks, with one content item:
\* resume://cv gives the JSON text of the whole document, resume://summary
\* the summary or 'No summary available' when the document has no basics
\* or no summary, resume://experience and resume://skills the JSON text of
\* the work and skills list, of the empty list when the list is absent.
C36_ReadProjectsWithDefaults ==
  \A i \in Req :
    LET q == requests[i]
        doc == q.resume.value
        text == q.out.value.contents[1].text
        hasSummary == /\ Has(doc, "basics")
                      /\ Has(doc.basics, "summary")
                      /\ doc.basics.summary # <<>>
    IN (q.kind = "resources/read" /\ q.phase = "done"
          /\ q.resume.status = "returned" /\ q.name \in ResourceUris) =>
         /\ q.out.status = "returned"
         /\ Len(q.out.value.contents) = 1
         /\ q.name = "resume://cv" => text = [json |-> doc]
         /\ q.name = "resume://summary" =>
              text = IF hasSummary THEN doc.basics.summary
                     ELSE <<"No summary available">>
         /\ q.name = "resume://experience" =>
              text = [json |-> IF Has(doc, "work") THEN doc.work ELSE <<>>]
         /\ q.name = "resume://skills" =>
              text = [json |-> IF Has(doc, "skills") THEN doc.skills
                               ELSE <<>>]

\* the summary of a document that has neither basics nor a work list was
\* read
C36_Witness ==
  \E i \in Req :
    LET q == requests[i] IN
    /\ q.kind = "resources/read" /\ q.phase = "done"
    /\ q.out.status = "returned"
    /\ q.name = "resume://summary"
    /\ ~Has(q.resume.value, "basics")
    /\ ~Has(q.resume.value, "work")
    /\ q.out.value.contents[1].text = <<"No summary available">>

(***************************************************************************)
(* Properties of searchResume: one match per entity, and the empty query   *)
(***************************************************************************)
\* the positions (from 0) of the entries of a section among the results
IndexesOf(results, section) ==
  {results[n].index : n \in {m \in 1..Len(results) :
                               results[m].section = section}}

\* the results hold at most one match for the summary and for every work
\* entry and skill group
OneMatchPerEntity(results, doc) ==
  /\ \A m, n \in 1..Len(results) :
       (/\ m # n
        /\ results[m].section = results[n].section) =>
         /\ results[m].section # "summary"
         /\ results[m].index # results[n].index
  /\ Len(results) <=
       1 + Len(ListOf(doc, "work")) + Len(ListOf(doc, "skills"))

\* the search of request q was for the empty string
EmptyQuery(q) == IsSearch(q) /\ ~Truthy(q.args.query)

\* the summary and the work entries an empty query has to match: those
\* with a searched field defined
EmptyQueryMatchesTexts(results, doc) ==
  /\ (Has(doc, "basics") /\ Has(doc.basics, "summary")) =>
       \E n \in 1..Len(results) : results[n].section = "summary"
  /\ \A k \in 1..Len(ListOf(doc, "work")) :
       (\E f \in {"company", "position", "summary"} : Has(doc.work[k], f)) =>
         (k - 1) \in IndexesOf(results, "work")

\* C40: searchResume returns at most one match for an entity, even when
\* several of its fields contain the query, so at most 1 + |work| +
\* |skills| matches; and the empty query matches every entity that has at
\* least one of the searched fields defined.
C40_OneMatchPerEntityEmptyQueryMatchesDefined ==
  \A i \in Req :
    LET q == requests[i]
        doc == q.resume.value
        results == TextOf(q).json
    IN IsSearch(q) =>
         /\ OneMatchPerEntity(results, doc)
         /\ EmptyQuery(q) =>
              /\ EmptyQueryMatchesTexts(results, doc)
              /\ \A k \in 1..Len(ListOf(doc, "skills")) :
                   (Has(doc.skills[k], "name")
                      \/ Has(doc.skills[k], "keywords")) =>
                     (k - 1) \in IndexesOf(results, "skills")

\* C40, amended: at most one match per entity; the empty query matches the
\* summary when it is defined, every work entry with a company, position
\* or summary defined, and every skill group with a name defined or with
\* at least one keyword, and no other skill group: keywords that are an
\* empty list match nothing.
C40_OneMatchPerEntityEmptyQueryMatchesTexts ==
  \A i \in Req :
    LET q == requests[i]
        doc == q.resume.value
        results == TextOf(q).json
    IN IsSearch(q) =>
         /\ OneMatchPerEntity(results, doc)
         /\ EmptyQuery(q) =>
              /\ EmptyQueryMatchesTexts(results, doc)
              /\ \A k \in 1..Len(ListOf(doc, "skills")) :
                   (k - 1) \in IndexesOf(results, "skills") <=>
                     \/ Has(doc.skills[k], "name")
                     \/ /\ Has(doc.skills[k], "keywords")
                        /\ doc.skills[k].keywords # <<>>

\* the empty query met a document whose first skill group has no name and
\* an empty list of keywords, and whose work entry of Beta contains 'e' in
\* two fields: the skill group is not among the matches, the work entry is
\* there once
C40_Witness ==
  \E i \in Req :
    LET q == requests[i]
        doc == q.resume.value
    IN /\ EmptyQuery(q)
       /\ Has(doc, "skills") /\ Has(doc, "work")
       /\ doc.skills[1] = [keywords |-> <<>>]
       /\ IndexesOf(TextOf(q).json, "skills") = {1}
       /\ Len(doc.work) = 2
       /\ Len(SelectSeq(TextOf(q).json, LAMBDA r : r.section = "work")) = 2

(***************************************************************************)
(* Properties of the provider registry                                     *)
(***************************************************************************)
RegistryCall == 1..Len(calls)

\* the keys of the registry, in the order of the Map
RegisteredNames == [n \in 1..Len(providers) |-> providers[n].key]

\* C33: the registry holds exactly ollama, openrouter, huggingface and
\* localai, once each, with the providers and model lists it was
\* constructed with, whatever calls of chat, getAvailableProviders,
\* getProvider and getModelsForProvider have been made; and
\* getModelsForProvider has returned the empty list, not an error, for
\* every unregistered name.
C33_RegistryFixedUnknownNameHasNoModels ==
  /\ Len(providers) = 4
  /\ {providers[n].key : n \in 1..Len(providers)} =
       {"ollama", "openrouter", "huggingface", "localai"}
  /\ providers = initializeProviders
  /\ \A c \in RegistryCall :
       (/\ calls[c].op = "getModelsForProvider"
        /\ calls[c].arg \notin {"ollama", "openrouter", "huggingface",
                                "localai"}) =>
         /\ calls[c].out.status = "returned"
         /\ calls[c].out.value = <<>>

\* a chat has run to its end with a provider's text and the models of the
\* unregistered gpt4all have been asked for
C33_Witness ==
  /\ \E k \in 1..Len(llmCalls) :
       llmCalls[k].pc = "done" /\ llmCalls[k].out.status = "returned"
  /\ \E c \in RegistryCall :
       /\ calls[c].op = "getModelsForProvider"
       /\ calls[c].arg = "gpt4all"
       /\ calls[c].out = Returned(<<>>)

\* C39: getAvailableProviders returns, and never fails: its list is a
\* subsequence of the registered names in registration order and holds
\* exactly the providers whose probe gave true; a probe whose request
\* failed leaves its provider out.
C39_AvailableAreThoseProbedTrueInOrder ==
  \A c \in RegistryCall :
    calls[c].op = "getAvailableProviders" =>
      LET answers == calls[c].arg
          list == calls[c].out.value
          ProbeTrue(name) ==
            IF name \in {"ollama", "localai"}
            THEN answers[name].kind = "response" /\ answers[name].ok
            ELSE Truthy(ApiKey(llmConfig, name))
      IN /\ calls[c].out.status = "returned"
         /\ IsSubsequence(list,
                          <<"ollama", "openrouter", "huggingface",
                            "localai">>)
         /\ IsSubsequence(list, RegisteredNames)
         /\ \A name \in {"ollama", "openrouter", "huggingface", "localai"} :
              (\E n \in 1..Len(list) : list[n] = name) <=> ProbeTrue(name)
         /\ \A name \in DOMAIN answers :
              answers[name].kind = "unreachable" =>
                \A n \in 1..Len(list) : list[n] # name

\* the request to Ollama failed, LocalAI answered 200 and only the key of
\* OpenRouter is set: the list is openrouter, localai
C39_Witness ==
  \E c \in RegistryCall :
    /\ calls[c].op = "getAvailableProviders"
    /\ calls[c].arg["ollama"].kind = "unreachable"
    /\ calls[c].arg["localai"].ok
    /\ calls[c].out = Returned(<<"openrouter", "localai">>)

(***************************************************************************)
(* Properties of the MCP client and of startServer                         *)
(***************************************************************************)
ClientCall == 1..Len(calls)

\* call c of connect() or disconnect() has completed
Completed(c) == calls[c].pc = "done"

\* a connect() or a disconnect() is between its await and its completion
InProgress == \E c \in ClientCall : ~Completed(c)

NoFields == [transport |-> Null, serverProcess |-> Null]

\* C37: transport and serverProcess are non-null only while the client is
\* connected (or a connect() or disconnect() is still running); after a
\* disconnect() that returned both are null; disconnect() on a client
\* with neither field set changes nothing; and a connect() that failed
\* leaves no transport, no server process in the field and no spawned
\* process running.
C37_FieldsTrackConnectedState ==
  /\ (FieldsOf(mcpClient) # NoFields) =>
       (mcpClient.client = "connected" \/ InProgress)
  /\ \A c \in ClientCall :
       /\ (/\ calls[c].op = "disconnect" /\ Completed(c)
           /\ calls[c].out.status = "returned") =>
            calls[c].after = NoFields
       /\ (/\ calls[c].op = "disconnect"
           /\ calls[c].before = NoFields) =>
            /\ Completed(c)
            /\ calls[c].out.status = "returned"
            /\ calls[c].after = NoFields
       /\ (/\ calls[c].op = "connect" /\ Completed(c)
           /\ calls[c].out.status = "threw") =>
            /\ calls[c].after = NoFields
            /\ ~children[calls[c].child].alive

\* the gateway's connect() has succeeded
GatewayConnected ==
  \E c \in ClientCall :
    /\ calls[c].op = "connect" /\ calls[c].by = "startServer"
    /\ Completed(c) /\ calls[c].out.status = "returned"

\* the gateway's connect() has failed
GatewayConnectFailed ==
  \E c \in ClientCall :
    /\ calls[c].op = "connect" /\ calls[c].by = "startServer"
    /\ Completed(c) /\ calls[c].out.status = "threw"

\* C38: the server is asked to listen, and listens, only after the
\* gateway's mcpClient.connect() has succeeded; when that connect() has
\* failed the process has exited with code 1 and has never listened.
C38_ListensOnlyOnceConnected ==
  /\ (gateway.phase = "binding" \/ gateway.listened) => GatewayConnected
  /\ GatewayConnectFailed =>
       /\ gateway.phase = "exited"
       /\ gateway.exitCode = Num(1)
       /\ ~gateway.listened

\* the gateway's connect() succeeded and the server has listened
C38_Witness == GatewayConnected /\ gateway.listened

====
